---- MODULE Spec2Model ----
(***************************************************************************)
(* A model of the homelab monitoring servers: the Pi-hole session cache,   *)
(* the per-server endpoint caches with their reload operations, the Unifi  *)
(* data cache, endpoint resolution with its environment fallback, and the  *)
(* Ansible inventory resolver.  Times are in seconds.                      *)
(***************************************************************************)
EXTENDS Integers, Sequences, FiniteSets, TLC

VARIABLES
    now,             \* datetime.now(), seconds since the process started
    session_cache,   \* pihole_mcp.SESSION_CACHE: display name -> session
    task,            \* the get_cached_session calls in flight, one per worker
    ret,             \* what the step just taken returned (none when nothing)
    inventory_file,  \* the file at INVENTORY_PATH: whether it exists, its YAML
    inventory_cache, \* ansible_mcp_server._inventory_cache
    environ,         \* os.environ: ANSIBLE_INVENTORY_PATH and the other variables
    endpoints_cache,       \* ollama_mcp._endpoints_cache
    ping_inventory_cache,  \* ping_mcp_server._inventory_cache
    ups_inventory_cache,   \* ups_mcp_server._inventory_cache
    cache_file,      \* CACHE_DIR / "unifi_data.json"
    unifi_setup      \* whether unifi_exporter.py exists, whether UNIFI_API_KEY is set

sessionVars == <<session_cache, task>>
inventoryVars == <<inventory_file, inventory_cache>>
serverVars == <<environ, endpoints_cache, ping_inventory_cache, ups_inventory_cache>>
unifiVars == <<cache_file, unifi_setup>>
vars == <<now, session_cache, task, ret, inventory_file, inventory_cache, environ,
          endpoints_cache, ping_inventory_cache, ups_inventory_cache, cache_file,
          unifi_setup>>

\* ------------------------------------------------------------------ bounds

\* The clock stops here.
MaxTime == 280

\* The instants at which the clock is read: the clock jumps from one to a
\* later one between two steps.
Instants == {0, 20, 100, MaxTime}

\* ------------------------------------------------------------ YAML values

\* A value of the inventory document: a mapping with its items in document
\* order, None, or a scalar.
NoneValue == [t |-> "none", items |-> <<>>, v |-> 0]
Scalar(n) == [t |-> "scalar", items |-> <<>>, v |-> n]
Dict(items) == [t |-> "dict", items |-> items, v |-> 0]
Item(k, value) == [k |-> k, val |-> value]

\* isinstance(data, dict)
IsDict(data) == data.t = "dict"

\* data.keys(), `k in data`, data[k]
Keys(data) == {data.items[i].k : i \in DOMAIN data.items}
Has(data, k) == k \in Keys(data)
Get(data, k) == data.items[CHOOSE i \in DOMAIN data.items : data.items[i].k = k].val

\* The truth value Python gives a value (in `host_vars or {}`).
Truthy(x) ==
    \/ x.t = "dict" /\ x.items # <<>>
    \/ x.t = "scalar" /\ x.v # 0

\* data.get(k, {})
GetOrEmpty(data, k) == IF Has(data, k) THEN Get(data, k) ELSE Dict(<<>>)

\* ------------------------------------------------ Ansible inventory resolver

\* f"{path}/{name}" if path else name
JoinPath(path, name) == IF path # "" THEN path \o "/" \o name ELSE name

\* What a call ends with: a host map (hostname -> {vars, groups}), or the
\* AttributeError of `.items()` on a value that is no mapping.
Returned(hosts) == [raised |-> FALSE, hosts |-> hosts]
Raised == [raised |-> TRUE, hosts |-> <<>>]

\* The loop over data["hosts"].items(): each hostname is entered with its own
\* variables (`host_vars or {}`), and with the path of the node when the path
\* is not empty.
OwnHosts(data, path) ==
    LET declared == Get(data, "hosts")
    IN  [hostname \in Keys(declared) |->
            [vars |-> IF Truthy(Get(declared, hostname))
                      THEN Get(declared, hostname) ELSE Dict(<<>>),
             groups |-> IF path # "" THEN <<path>> ELSE <<>>]]

\* Mutant: a hostname seen already keeps its groups as they are.
MergeHosts_KeepFirst(hosts, child_hosts) ==
    [hostname \in DOMAIN hosts \cup DOMAIN child_hosts |->
        IF hostname \in DOMAIN hosts THEN hosts[hostname] ELSE child_hosts[hostname]]

\* Mutant: a hostname seen already takes the variables declared last.
MergeHosts_LastWins(hosts, child_hosts) ==
    [hostname \in DOMAIN hosts \cup DOMAIN child_hosts |->
        IF hostname \notin DOMAIN hosts THEN child_hosts[hostname]
        ELSE IF hostname \in DOMAIN child_hosts
            THEN [vars |-> child_hosts[hostname].vars,
                  groups |-> hosts[hostname].groups \o child_hosts[hostname].groups]
        ELSE hosts[hostname]]

\* "Merge hosts": a hostname not seen yet takes the child's entry, one seen
\* already has the child's groups appended.
MergeHosts(hosts, child_hosts) ==
    [hostname \in DOMAIN hosts \cup DOMAIN child_hosts |->
        IF hostname \notin DOMAIN hosts THEN child_hosts[hostname]
        ELSE IF hostname \in DOMAIN child_hosts
            THEN [hosts[hostname] EXCEPT !.groups = @ \o child_hosts[hostname].groups]
        ELSE hosts[hostname]]

RECURSIVE extract_hosts(_, _), MergeEach(_, _, _, _)

\* One of the two loops of _extract_hosts over the items of a mapping: each
\* item whose key is not skipped is resolved under its own path and merged
\* into the hosts found so far.
MergeEach(found, items, path, skipped) ==
    IF found.raised \/ items = <<>> THEN found
    ELSE IF Head(items).k \in skipped
        THEN MergeEach(found, Tail(items), path, skipped)
    ELSE LET child == extract_hosts(Head(items).val, JoinPath(path, Head(items).k))
         IN  IF child.raised THEN Raised
             ELSE MergeEach(Returned(MergeHosts(found.hosts, child.hosts)),
                            Tail(items), path, skipped)

\* _extract_hosts(data, path): the node's own hosts, then its children, then
\* its other keys (all but hosts, children and vars).
extract_hosts(data, path) ==
    IF ~IsDict(data) THEN Returned(<<>>)
    ELSE LET own == IF ~Has(data, "hosts") THEN Returned(<<>>)
                    ELSE IF IsDict(Get(data, "hosts"))
                        THEN Returned(OwnHosts(data, path))
                    ELSE Raised
             with_children ==
                    IF own.raised \/ ~Has(data, "children") THEN own
                    ELSE IF IsDict(Get(data, "children"))
                        THEN MergeEach(own, Get(data, "children").items, path, {})
                    ELSE Raised
         IN  MergeEach(with_children, data.items, path, {"hosts", "children", "vars"})

\* The inventory file: absent, or holding a YAML document.
MissingFile == [exists |-> FALSE, doc |-> NoneValue]
FileWith(doc) == [exists |-> TRUE, doc |-> doc]

\* A file whose text is no YAML: yaml.safe_load raises on it.
Unparsable == [t |-> "unparsable", items |-> <<>>, v |-> 0]

\* Mutant: the cached value is never used.
CacheIsSet_Never(cache) == FALSE

\* `_inventory_cache is not None`, the test that opens every loader.
CacheIsSet(cache) == cache # NoneValue

\* Mutant: a reload keeps what is cached.
Invalidated_Kept(cache) == cache

\* `_inventory_cache = None`, the assignment that opens every reload.
Invalidated(cache) == NoneValue

\* Mutant: the {} answered for a missing file is cached.
CacheOfMissingFile_Stored(cache) == Dict(<<>>)

\* `return {}` for a missing file assigns nothing to _inventory_cache.
CacheOfMissingFile(cache) == cache

\* _load_inventory: the cache when it is not None; {} without caching when
\* the file does not exist; else the parsed document, cached. The error of
\* yaml.safe_load leaves the function before the cache is assigned.
load_inventory(cache, file) ==
    IF CacheIsSet(cache)
        THEN [inventory |-> cache, cache |-> cache, resolved |-> FALSE, raised |-> FALSE]
    ELSE IF ~file.exists
        THEN [inventory |-> Dict(<<>>), cache |-> CacheOfMissingFile(cache),
              resolved |-> TRUE, raised |-> FALSE]
    ELSE IF file.doc = Unparsable
        THEN [inventory |-> NoneValue, cache |-> cache, resolved |-> TRUE, raised |-> TRUE]
    ELSE [inventory |-> file.doc, cache |-> file.doc, resolved |-> TRUE, raised |-> FALSE]

\* inventory.get("all", {}) and the resolver on it; an inventory that is no
\* mapping has no `get`.
HostsOf(inventory) ==
    IF IsDict(inventory) THEN extract_hosts(GetOrEmpty(inventory, "all"), "") ELSE Raised

\* The hosts a tool works on: nothing when _load_inventory raised.
LoadedHosts(loaded) == IF loaded.raised THEN Raised ELSE HostsOf(loaded.inventory)

\* The text a tool answers with, as its class ("ok", "not found",
\* "connection", "unreachable", "required") and the parts it is made of: "item", the name
\* that was asked for; "available", the valid names; "discovery", the tool
\* that lists the valid names.
Answer(class, parts) == [class |-> class, parts |-> parts]

\* {"error": f"Host '{hostname}' not found in inventory"}, and the same for a
\* group: the name and nothing else.
NotInInventory == Answer("not found", {"item"})

\* The return of an inventory tool: the operation, its argument, whether it
\* raised, the inventory it worked on and what it answers with.
ToolReturn(op, arg, loaded, raised, hosts, found) ==
    [server |-> "ansible", kind |-> IF op = "reload_inventory" THEN "reload" ELSE "get",
     op |-> op, arg |-> arg, inventory |-> loaded.inventory, resolved |-> loaded.resolved,
     scanned |-> FALSE, raised |-> raised, hosts |-> hosts, found |-> found,
     known |-> found,
     answer |-> IF ~raised /\ ~found THEN NotInInventory ELSE Answer("ok", {})]

\* list_all_hosts()
list_all_hosts ==
    LET loaded == load_inventory(inventory_cache, inventory_file)
        all_hosts == LoadedHosts(loaded)
    IN  /\ inventory_cache' = loaded.cache
        /\ ret' = ToolReturn("list_all_hosts", "", loaded, all_hosts.raised,
                             all_hosts.hosts, ~all_hosts.raised)
        /\ UNCHANGED <<now, unifiVars, sessionVars, inventory_file, serverVars>>

\* get_host_details(hostname): the entry of the hostname, or not found.
get_host_details(hostname) ==
    LET loaded == load_inventory(inventory_cache, inventory_file)
        all_hosts == LoadedHosts(loaded)
        found == ~all_hosts.raised /\ hostname \in DOMAIN all_hosts.hosts
    IN  /\ inventory_cache' = loaded.cache
        /\ ret' = ToolReturn("get_host_details", hostname, loaded, all_hosts.raised,
                             IF found THEN [h \in {hostname} |-> all_hosts.hosts[h]]
                             ELSE <<>>,
                             found)
        /\ UNCHANGED <<now, unifiVars, sessionVars, inventory_file, serverVars>>

\* What _extract_groups ends with: the group paths in the order they are
\* appended, or the AttributeError of `.keys()` on a `children` value that is
\* no mapping.
Listed(groups) == [raised |-> FALSE, groups |-> groups]
ListRaised == [raised |-> TRUE, groups |-> <<>>]

RECURSIVE extract_groups(_, _), GroupsEach(_, _, _, _, _)

\* One of the two loops of _extract_groups: each item taken is appended under
\* its full path, followed by the groups found below it. The loop over
\* `children` takes every name; the loop over the other keys takes the values
\* that are mappings.
GroupsEach(found, items, path, skipped, dicts_only) ==
    IF found.raised \/ items = <<>> THEN found
    ELSE IF Head(items).k \in skipped \/ (dicts_only /\ ~IsDict(Head(items).val))
        THEN GroupsEach(found, Tail(items), path, skipped, dicts_only)
    ELSE LET full_path == JoinPath(path, Head(items).k)
             below == extract_groups(Head(items).val, full_path)
         IN  IF below.raised THEN ListRaised
             ELSE GroupsEach(Listed(found.groups \o <<full_path>> \o below.groups),
                             Tail(items), path, skipped, dicts_only)

\* _extract_groups(data, path)
extract_groups(data, path) ==
    IF ~IsDict(data) THEN Listed(<<>>)
    ELSE LET children ==
                IF ~Has(data, "children") THEN Listed(<<>>)
                ELSE IF IsDict(Get(data, "children"))
                    THEN GroupsEach(Listed(<<>>), Get(data, "children").items, path, {}, FALSE)
                ELSE ListRaised
         IN  GroupsEach(children, data.items, path, {"hosts", "children", "vars"}, TRUE)

\* The group paths of the inventories in the order of Python's str.
GroupPathOrder == <<"extra", "g1", "g1/sub", "g2">>

RECURSIVE SortedFrom(_, _)
SortedFrom(order, groups) ==
    IF order = <<>> THEN <<>>
    ELSE SelectSeq(groups, LAMBDA g : g = Head(order)) \o SortedFrom(Tail(order), groups)

\* sorted(groups)
sorted(groups) == SortedFrom(GroupPathOrder, groups)

\* What _find_group ends with: a value (None when nothing was found), or the
\* TypeError of `target in data["children"]` on a value that is no container.
Found(value) == [raised |-> FALSE, value |-> value]
FindRaised == [raised |-> TRUE, value |-> NoneValue]

RECURSIVE find_group(_, _), FindEach(_, _)

\* The loop of _find_group over data.items(): the value of the first key equal
\* to the target; else what the search below a mapping returns, when that is
\* truthy.
FindEach(items, target) ==
    IF items = <<>> THEN Found(NoneValue)
    ELSE IF Head(items).k = target THEN Found(Head(items).val)
    ELSE IF IsDict(Head(items).val)
        THEN LET result == find_group(Head(items).val, target)
             IN  IF result.raised \/ Truthy(result.value) THEN result
                 ELSE FindEach(Tail(items), target)
    ELSE FindEach(Tail(items), target)

\* _find_group(data, target): the target among the node's children first,
\* then the loop over the node's items.
find_group(data, target) ==
    IF ~IsDict(data) THEN Found(NoneValue)
    ELSE IF Has(data, "children") /\ ~IsDict(Get(data, "children")) THEN FindRaised
    ELSE IF Has(data, "children") /\ Has(Get(data, "children"), target)
        THEN Found(Get(Get(data, "children"), target))
    ELSE FindEach(data.items, target)

\* inventory.get("all", {}) of a loaded inventory.
AllOf(loaded) ==
    IF loaded.raised \/ ~IsDict(loaded.inventory) THEN FindRaised
    ELSE Found(GetOrEmpty(loaded.inventory, "all"))

\* The return of a group tool: as ToolReturn, with the group found, the
\* hostnames answered in their order, the group paths answered and the text
\* under "error".
GroupReturn(op, arg, loaded, raised, found, group_data, members, groups, error) ==
    [server |-> "ansible", kind |-> "get", op |-> op, arg |-> arg,
     inventory |-> loaded.inventory, resolved |-> loaded.resolved, scanned |-> FALSE,
     raised |-> raised, hosts |-> <<>>, found |-> found, group_data |-> group_data,
     members |-> members, groups |-> groups, error |-> error,
     known |-> error = "",
     answer |-> IF error # "" THEN NotInInventory ELSE Answer("ok", {})]

\* list_groups()
list_groups ==
    LET loaded == load_inventory(inventory_cache, inventory_file)
        all == AllOf(loaded)
        groups == IF all.raised THEN ListRaised ELSE extract_groups(all.value, "")
    IN  /\ inventory_cache' = loaded.cache
        /\ ret' = GroupReturn("list_groups", "", loaded, groups.raised, ~groups.raised,
                              NoneValue, <<>>, sorted(groups.groups), "")
        /\ UNCHANGED <<now, unifiVars, sessionVars, inventory_file, serverVars>>

\* get_group_hosts(group_name): the keys of group_data.get("hosts", {}), or
\* the error when _find_group returned None.
get_group_hosts(group_name) ==
    LET loaded == load_inventory(inventory_cache, inventory_file)
        all == AllOf(loaded)
        group == IF all.raised THEN FindRaised ELSE find_group(all.value, group_name)
        missing == ~group.raised /\ group.value = NoneValue
        hosts == IF group.raised \/ missing \/ ~IsDict(group.value) THEN NoneValue
                 ELSE GetOrEmpty(group.value, "hosts")
        raised == ~missing /\ ~IsDict(hosts)
    IN  /\ inventory_cache' = loaded.cache
        /\ ret' = GroupReturn("get_group_hosts", group_name, loaded, raised,
                              ~missing /\ ~raised, group.value,
                              IF raised \/ missing THEN <<>>
                              ELSE [i \in DOMAIN hosts.items |-> hosts.items[i].k],
                              <<>>,
                              IF missing
                              THEN "Group '" \o group_name \o "' not found in inventory"
                              ELSE "")
        /\ UNCHANGED <<now, unifiVars, sessionVars, inventory_file, serverVars>>

\* str(value) of the values the host variables take.
Str(value) ==
    CASE value = Scalar(1) -> "1" [] value = Scalar(2) -> "2"
      [] value = Scalar(3) -> "3" [] value = Scalar(4) -> "4" [] OTHER -> "None"

\* fnmatch.fnmatch(hostname, pattern) for the patterns used: a literal name,
\* or "h*", which every name beginning with h matches.
fnmatch(hostname, pattern) ==
    IF pattern = "h*" THEN hostname \in {"h1", "h2"} ELSE hostname = pattern

\* query_hosts(pattern, variable, value): the hosts whose name matches the
\* pattern when one is given and whose own vars hold the variable (with the
\* value, when one is given).
query_hosts(pattern, variable, value) ==
    LET loaded == load_inventory(inventory_cache, inventory_file)
        all_hosts == LoadedHosts(loaded)
        match(hostname) ==
            /\ pattern # "" => fnmatch(hostname, pattern)
            /\ variable # "" =>
                  /\ Has(all_hosts.hosts[hostname].vars, variable)
                  /\ value # "" =>
                        Str(Get(all_hosts.hosts[hostname].vars, variable)) = value
        matching_hosts == {hostname \in DOMAIN all_hosts.hosts : match(hostname)}
    IN  /\ inventory_cache' = loaded.cache
        /\ ret' = ToolReturn("query_hosts", <<pattern, variable, value>>, loaded,
                             all_hosts.raised,
                             [hostname \in matching_hosts |-> all_hosts.hosts[hostname]],
                             ~all_hosts.raised)
        /\ UNCHANGED <<now, unifiVars, sessionVars, inventory_file, serverVars>>

\* reload_inventory(): the cache is set to None and _load_inventory is run.
reload_inventory ==
    LET loaded == load_inventory(Invalidated(inventory_cache), inventory_file)
    IN  /\ inventory_cache' = loaded.cache
        /\ ret' = ToolReturn("reload_inventory", "", loaded, loaded.raised, <<>>,
                             ~loaded.raised)
        /\ UNCHANGED <<now, unifiVars, sessionVars, inventory_file, serverVars>>

\* No inventory file and nothing cached.
InventoryAtRest == inventory_file = MissingFile /\ inventory_cache = NoneValue

\* No environment variable is set and no endpoint table is cached.
ServersAtRest ==
    /\ environ = [ANSIBLE_INVENTORY_PATH |-> "", variables |-> {}]
    /\ endpoints_cache = NoneValue
    /\ ping_inventory_cache = NoneValue
    /\ ups_inventory_cache = NoneValue

\* No Unifi data is cached; the exporter and its API key are in place.
UnifiAtRest ==
    /\ cache_file = [exists |-> FALSE, data |-> <<>>, mtime |-> 0]
    /\ unifi_setup = [exporter |-> TRUE, api_key |-> TRUE]

\* ------------------------------------------------------ Pi-hole sessions

DisplayNames == {"dell", "zero"}
ApiKeys == {"", "secret"}
Sids == {"sidA", "sidB"}
Tasks == {1, 2}

\* session_data.get("validity", 300): the value used when the server's
\* answer carries no validity.
DEFAULT_VALIDITY == 300

\* Refresh 30 seconds before expiry.
SAFETY_MARGIN == 30

\* The answer has no "validity" key.
Absent == -1

\* Validities a server declares.
Validities == {Absent, 20, 30, 50}

\* What the authentication exchange can end with: an HTTP answer (status,
\* session.valid, session.sid, session.validity) or an exception.
AuthResponses ==
    [status : {200}, valid : {TRUE}, sid : Sids, validity : Validities, fault : {"none"}]
    \cup [status : {200}, valid : {FALSE}, sid : {""}, validity : {Absent}, fault : {"none"}]
    \cup [status : {401, 403, 500}, valid : {FALSE}, sid : {""}, validity : {Absent},
          fault : {"none"}]
    \cup [status : {0}, valid : {FALSE}, sid : {""}, validity : {Absent},
          fault : {"timeout", "connector", "other"}]

\* get_pihole_session, from the answer on: {sid, expires_at} or {error}.
\* A record whose error is "" is one that has no "error" key.
get_pihole_session(resp, t) ==
    IF resp.fault = "timeout" THEN [error |-> "Timeout", sid |-> "", expires_at |-> 0]
    ELSE IF resp.fault = "connector"
        THEN [error |-> "Connection Failed", sid |-> "", expires_at |-> 0]
    ELSE IF resp.fault = "other"
        THEN [error |-> "Unexpected Error", sid |-> "", expires_at |-> 0]
    ELSE IF resp.status = 200 THEN
        IF resp.valid THEN
            LET validity_seconds ==
                    IF resp.validity = Absent THEN DEFAULT_VALIDITY ELSE resp.validity
            IN  [error |-> "", sid |-> resp.sid,
                 expires_at |-> t + (validity_seconds - SAFETY_MARGIN)]
        ELSE [error |-> "Authentication Failed", sid |-> "", expires_at |-> 0]
    ELSE IF resp.status = 401 THEN [error |-> "HTTP 401", sid |-> "", expires_at |-> 0]
    ELSE IF resp.status = 403 THEN [error |-> "HTTP 403", sid |-> "", expires_at |-> 0]
    ELSE [error |-> "HTTP error", sid |-> "", expires_at |-> 0]

\* Mutant: a session is still handed out at the instant it expires.
SessionStillValid_Inclusive(cached, t) == t <= cached.expires_at

\* The test of get_cached_session on a cached session: still valid at t.
SessionStillValid(cached, t) == t < cached.expires_at

\* Mutant: any cached session is handed out, whatever its age.
CacheHit_IgnoreExpiry(cache, display_name, t) == display_name \in DOMAIN cache

\* `cache_key in session_cache` and the test on the entry found.
CacheHit(cache, display_name, t) ==
    /\ display_name \in DOMAIN cache
    /\ SessionStillValid(cache[display_name], t)

\* Mutant: a session stored meanwhile by another call is kept.
StoreSession_KeepExisting(cache, display_name, session_info) ==
    [k \in DOMAIN cache \cup {display_name} |->
        IF k \in DOMAIN cache THEN cache[k]
        ELSE [sid |-> session_info.sid, expires_at |-> session_info.expires_at]]

\* session_cache[cache_key] = session_info
StoreSession(cache, display_name, session_info) ==
    [k \in DOMAIN cache \cup {display_name} |->
        IF k = display_name
        THEN [sid |-> session_info.sid, expires_at |-> session_info.expires_at]
        ELSE cache[k]]

\* Mutant: the outcome of the exchange is cached even when it is an error.
CacheAfterExchange_StoreAlways(cache, display_name, session_info) ==
    StoreSession(cache, display_name, session_info)

\* What get_cached_session leaves in the cache once the exchange has ended:
\* only a session_info without "error" is stored.
CacheAfterExchange(cache, display_name, session_info) ==
    IF session_info.error = ""
    THEN StoreSession(cache, display_name, session_info)
    ELSE cache

\* A worker: idle, or awaiting the exchange of its call ("auth"); refresh says
\* that the call found a cached session that had expired ("Session expired
\* for ..., refreshing...").
IdleTask == [pc |-> "idle", display_name |-> "", api_key |-> "", refresh |-> FALSE]

\* The return of the step just taken.  op: "sid" ({sid}), "error" ({error}),
\* "auth_started" (the call awaits the exchange), "none" (no call step).
\* had_entry: the display name was a key of the cache when the step began;
\* exchange: an authentication exchange ended in this step, with the validity
\* the server declared; refresh: that exchange was started on an expired
\* session.
NoReturn ==
    [server |-> "none", kind |-> "none", resolved |-> FALSE, scanned |-> FALSE,
     op |-> "none", display_name |-> "", sid |-> "", error |-> "", expires_at |-> 0,
     from_cache |-> FALSE, had_entry |-> FALSE, exchange |-> FALSE, validity |-> Absent,
     refresh |-> FALSE]

\* Mutant: an empty API key is taken for a key.
NotApiKey_Never(api_key) == FALSE

\* `if not api_key:`
NotApiKey(api_key) == api_key = ""

\* get_cached_session up to its return or to the await of the exchange.
GetCachedSessionCall(t, display_name, api_key) ==
    /\ task[t].pc = "idle"
    /\ LET had == display_name \in DOMAIN session_cache
           base == [NoReturn EXCEPT !.display_name = display_name, !.had_entry = had]
       IN  IF NotApiKey(api_key) THEN
               /\ ret' = [base EXCEPT !.op = "error", !.error = "No API key configured"]
               /\ UNCHANGED <<session_cache, task>>
           ELSE IF CacheHit(session_cache, display_name, now) THEN
               /\ ret' = [base EXCEPT !.op = "sid", !.from_cache = TRUE,
                              !.sid = session_cache[display_name].sid,
                              !.expires_at = session_cache[display_name].expires_at]
               /\ UNCHANGED <<session_cache, task>>
           ELSE
               /\ task' = [task EXCEPT ![t] = [pc |-> "auth",
                               display_name |-> display_name, api_key |-> api_key,
                               refresh |-> had]]
               /\ ret' = [base EXCEPT !.op = "auth_started", !.refresh = had]
               /\ UNCHANGED session_cache
    /\ UNCHANGED <<now, unifiVars, inventoryVars, serverVars>>

\* get_cached_session from the answer of the exchange to its return.
GetCachedSessionResume(t, resp) ==
    /\ task[t].pc = "auth"
    /\ LET display_name == task[t].display_name
           had == display_name \in DOMAIN session_cache
           session_info == get_pihole_session(resp, now)
           base == [NoReturn EXCEPT !.display_name = display_name, !.had_entry = had,
                        !.exchange = TRUE, !.validity = resp.validity,
                        !.refresh = task[t].refresh]
       IN  /\ session_cache' = CacheAfterExchange(session_cache, display_name, session_info)
           /\ ret' = IF session_info.error = ""
                     THEN [base EXCEPT !.op = "sid", !.sid = session_info.sid,
                               !.expires_at = session_info.expires_at]
                     ELSE [base EXCEPT !.op = "error", !.error = session_info.error]
    /\ task' = [task EXCEPT ![t] = IdleTask]
    /\ UNCHANGED <<now, unifiVars, inventoryVars, serverVars>>

\* Time passes.  An exchange ends within its 5 second ClientTimeout, below the
\* resolution of this clock, so the clock moves only between exchanges.
Tick ==
    /\ \A t \in Tasks : task[t].pc = "idle"
    /\ \E t \in Instants : t > now /\ now' = t
    /\ ret' = NoReturn
    /\ UNCHANGED <<sessionVars, inventoryVars, serverVars, unifiVars>>

InitSession ==
    /\ now = 0
    /\ session_cache = <<>>
    /\ task = [t \in Tasks |-> IdleTask]
    /\ ret = NoReturn
    /\ InventoryAtRest
    /\ ServersAtRest
    /\ UnifiAtRest

NextSession ==
    \/ \E t \in Tasks, n \in DisplayNames, k \in ApiKeys : GetCachedSessionCall(t, n, k)
    \/ \E t \in Tasks, r \in AuthResponses : GetCachedSessionResume(t, r)
    \/ Tick

SpecSession == InitSession /\ [][NextSession]_vars

\* ------------------------------------------------------ endpoint resolution

\* An environment variable: its key in three parts (PIHOLE_ + DELL + _HOST)
\* and its value, host and port apart (host:port, or host alone when the
\* port is "").
EnvVar(prefix, middle, suffix, host, port) ==
    [prefix |-> prefix, middle |-> middle, suffix |-> suffix, host |-> host, port |-> port]

\* The value of the variable as a string.
ValueOf(var) == IF var.port = "" THEN var.host ELSE var.host \o ":" \o var.port

\* key.startswith(prefix), key.endswith(suffix)
StartsWith(var, prefix) ==
    var.prefix = prefix \/ (prefix = "PIHOLE_" /\ var.prefix = "PIHOLE_API_KEY_")
EndsWith(var, suffix) == var.suffix = suffix

\* middle.isdigit()
IsDigit(middle) == middle \in {"1", "2"}

\* str.lower() and str.replace("_", "-").title() on the names that occur.
Lower(name) ==
    CASE name = "CYBER" -> "cyber" [] name = "HL15" -> "hl15" [] OTHER -> name
Title(name) ==
    CASE name = "SERVER1" -> "Server1" [] name = "DELL" -> "Dell" [] OTHER -> name

\* os.environ.get(key, default), the value as a string.
EnvGet(env, prefix, middle, suffix, default) ==
    LET named == {var \in env.variables :
                      var.prefix = prefix /\ var.middle = middle /\ var.suffix = suffix}
    IN  IF named = {} THEN default ELSE ValueOf(CHOOSE var \in named : TRUE)

\* AnsibleConfigManager.is_available(): the inventory file exists and holds
\* a mapping.
manager_is_available(file) == file.exists /\ IsDict(file.doc)

\* AnsibleConfigManager.get_group_hosts(group): hostname -> address for the
\* hosts of the group (a child of `all`); the address is the hostname when
\* the host has no ansible_host.
manager_get_group_hosts(file, group) ==
    LET children == GetOrEmpty(GetOrEmpty(file.doc, "all"), "children")
        node == IF IsDict(children) THEN GetOrEmpty(children, group) ELSE Dict(<<>>)
        declared == IF IsDict(node) THEN GetOrEmpty(node, "hosts") ELSE Dict(<<>>)
    IN  [hostname \in (IF IsDict(declared) THEN Keys(declared) ELSE {}) |-> hostname]

\* load_group_hosts(group, inventory_path): the hosts of the group, {} when
\* there is no inventory to load.
load_group_hosts(group, inventory_path, file) ==
    IF inventory_path = "" \/ ~manager_is_available(file) THEN <<>>
    ELSE manager_get_group_hosts(file, group)

\* AnsibleConfigManager.get_all_hosts_with_inheritance(): the hosts of every
\* group and the members of each group.
get_all_hosts_with_inheritance(file) ==
    LET children == GetOrEmpty(GetOrEmpty(file.doc, "all"), "children")
        groups == IF IsDict(children) THEN Keys(children) ELSE {}
        members == [g \in groups |-> DOMAIN manager_get_group_hosts(file, g)]
    IN  [hosts |-> [hostname \in UNION {members[g] : g \in groups} |->
                       [groups |-> {g \in groups : hostname \in members[g]},
                        vars |-> [ansible_host |-> hostname]]],
         groups |-> members]

\* load_indexed_env_vars(prefix, name_suffix, target_suffix): for each index
\* with a variable PREFIX<index>..., its name and its target.
load_indexed_env_vars(env, prefix, name_suffix, target_suffix) ==
    [index \in {var.middle : var \in {v \in env.variables :
                                         v.prefix = prefix /\ IsDigit(v.middle)}} |->
        [name |-> EnvGet(env, prefix, index, name_suffix, ""),
         target |-> EnvGet(env, prefix, index, target_suffix, "")]]

\* b's entries over a's: a.update(b).
Updated(a, b) ==
    [k \in DOMAIN a \cup DOMAIN b |-> IF k \in DOMAIN b THEN b[k] ELSE a[k]]

\* What a resolution ends with: the table returned, the value the cache is
\* left with, whether the resolution ran (the cache was not used) and
\* whether it scanned the environment variables.
Resolution(returned, cache, resolved, scanned) ==
    [returned |-> returned, cache |-> cache, resolved |-> resolved, scanned |-> scanned]

\* ---- ollama

OLLAMA_INVENTORY_GROUP == "ollama_servers"

\* The environment scan of _load_ollama_endpoints: OLLAMA_<NAME>=ip[:port],
\* but for OLLAMA_PORT and OLLAMA_INVENTORY_GROUP, as Name -> ip.
OllamaEndpointsFromEnv(env) ==
    LET found == {var \in env.variables :
                     /\ StartsWith(var, "OLLAMA_")
                     /\ ~(var.suffix = "" /\ var.middle \in {"PORT", "INVENTORY_GROUP"})}
    IN  [display_name \in {Title(var.middle \o var.suffix) : var \in found} |->
            (CHOOSE var \in found : Title(var.middle \o var.suffix) = display_name).host]

\* _load_ollama_endpoints()
load_ollama_endpoints(cache, env, file) ==
    IF CacheIsSet(cache) THEN Resolution(cache, cache, FALSE, FALSE)
    ELSE LET hosts == load_group_hosts(OLLAMA_INVENTORY_GROUP,
                                       env.ANSIBLE_INVENTORY_PATH, file)
         IN  IF hosts # <<>> THEN Resolution(hosts, hosts, TRUE, FALSE)
             ELSE Resolution(OllamaEndpointsFromEnv(env), OllamaEndpointsFromEnv(env),
                             TRUE, TRUE)

\* ---- ping

EmptyPingInventory == [hosts |-> <<>>, groups |-> <<>>]

\* load_ping_targets_from_env(): PING_TARGET<n> with its optional _NAME.
load_ping_targets_from_env(env) ==
    LET indexed_targets == load_indexed_env_vars(env, "PING_TARGET", "_NAME", "")
        used == {index \in DOMAIN indexed_targets : indexed_targets[index].target # ""}
        HostnameOf(index) == IF indexed_targets[index].name # ""
                             THEN indexed_targets[index].name
                             ELSE "ping-target-" \o index
        hosts == [hostname \in {HostnameOf(index) : index \in used} |->
                     [groups |-> {"env_targets"},
                      vars |-> [ansible_host |->
                          indexed_targets[CHOOSE index \in used :
                                              HostnameOf(index) = hostname].target]]]
    IN  IF hosts = <<>> THEN EmptyPingInventory
        ELSE [hosts |-> hosts, groups |-> [g \in {"env_targets"} |-> DOMAIN hosts]]

\* ping_mcp_server._load_inventory()
ping_load_inventory(cache, env, file) ==
    LET from_env == load_ping_targets_from_env(env)
        fallback == Resolution(IF from_env.hosts # <<>> THEN from_env
                               ELSE EmptyPingInventory, from_env, TRUE, TRUE)
    IN  IF CacheIsSet(cache) THEN Resolution(cache, cache, FALSE, FALSE)
        ELSE IF env.ANSIBLE_INVENTORY_PATH = "" \/ ~file.exists THEN fallback
        ELSE IF ~manager_is_available(file) THEN fallback
        ELSE LET inventory == get_all_hosts_with_inheritance(file)
             IN  IF inventory.hosts = <<>> THEN Resolution(from_env, from_env, TRUE, TRUE)
                 ELSE Resolution(inventory, inventory, TRUE, FALSE)

\* ---- ups

DEFAULT_NUT_PORT == 3493

NoNutServers == [nut_servers |-> <<>>]

\* _build_nut_servers_dict(manager, nut_hosts), address and port of each.
build_nut_servers_dict(nut_hosts) ==
    [hostname \in DOMAIN nut_hosts |->
        [hostname |-> hostname, host |-> nut_hosts[hostname], port |-> DEFAULT_NUT_PORT]]

\* ups_mcp_server._load_inventory()
ups_load_inventory(cache, env, file) ==
    IF CacheIsSet(cache) THEN Resolution(cache, cache, FALSE, FALSE)
    ELSE IF env.ANSIBLE_INVENTORY_PATH = "" THEN Resolution(NoNutServers, cache, TRUE, FALSE)
    ELSE IF ~manager_is_available(file) THEN Resolution(NoNutServers, cache, TRUE, FALSE)
    ELSE LET nut_hosts == manager_get_group_hosts(file, "nut_servers")
         IN  IF nut_hosts = <<>> THEN Resolution(NoNutServers, cache, TRUE, FALSE)
             ELSE LET loaded == [nut_servers |-> build_nut_servers_dict(nut_hosts)]
                  IN  Resolution(loaded, loaded, TRUE, FALSE)

\* ---- docker / podman

\* The named pattern of load_container_hosts_from_env for one runtime:
\* PREFIX_<NAME>_ENDPOINT with a name that is no index, under the name in
\* lower case (or the runtime when the name is empty).
NamedEndpoints(env, prefix, runtime) ==
    LET found == {var \in env.variables :
                     /\ var.prefix = prefix /\ EndsWith(var, "_ENDPOINT")
                     /\ ~(var.middle # "" /\ IsDigit(var.middle))}
        NameOf(var) == IF var.middle # "" THEN Lower(var.middle) ELSE runtime
    IN  [display_name \in {NameOf(var) : var \in found} |->
            [endpoint |-> ValueOf(CHOOSE var \in found : NameOf(var) = display_name),
             runtime |-> runtime]]

\* The indexed pattern for one runtime: each index with an endpoint, under
\* its _NAME or under <runtime>-server<index>; an unnamed podman index is
\* skipped when a named PODMAN_<NAME>_ENDPOINT has the same value.
IndexedEndpoints(env, prefix, runtime) ==
    LET servers == load_indexed_env_vars(env, prefix, "_NAME", "_ENDPOINT")
        NameOf(index) == IF servers[index].name # "" THEN servers[index].name
                         ELSE runtime \o "-server" \o index
        BetterNamed(index) ==
            /\ runtime = "podman" /\ servers[index].name = ""
            /\ \E var \in env.variables :
                   /\ var.prefix = prefix /\ EndsWith(var, "_ENDPOINT")
                   /\ ValueOf(var) = servers[index].target
                   /\ var.middle # "" /\ ~IsDigit(var.middle)
        used == {index \in DOMAIN servers :
                    servers[index].target # "" /\ ~BetterNamed(index)}
    IN  [display_name \in {NameOf(index) : index \in used} |->
            [endpoint |-> servers[CHOOSE index \in used :
                                      NameOf(index) = display_name].target,
             runtime |-> runtime]]

\* load_container_hosts_from_env(): the indexed docker entries, then the
\* indexed podman ones, then the named ones whose name is still free.
load_container_hosts_from_env(env) ==
    LET indexed == Updated(IndexedEndpoints(env, "DOCKER_", "docker"),
                           IndexedEndpoints(env, "PODMAN_", "podman"))
        named == Updated(NamedEndpoints(env, "PODMAN_", "podman"),
                         NamedEndpoints(env, "DOCKER_", "docker"))
    IN  Updated(named, indexed)

\* load_container_hosts_from_ansible(): the hosts of docker_hosts and of
\* podman_hosts, else the environment.
load_container_hosts_from_ansible(env, file) ==
    LET from_env == Resolution(load_container_hosts_from_env(env), NoneValue, TRUE, TRUE)
    IN  IF env.ANSIBLE_INVENTORY_PATH = "" THEN from_env
        ELSE IF ~manager_is_available(file) THEN from_env
        ELSE LET docker_hosts == manager_get_group_hosts(file, "docker_hosts")
                 podman_hosts == manager_get_group_hosts(file, "podman_hosts")
                 container_hosts ==
                     Updated([h \in DOMAIN docker_hosts |->
                                 [endpoint |-> docker_hosts[h] \o ":2375",
                                  runtime |-> "docker"]],
                             [h \in DOMAIN podman_hosts |->
                                 [endpoint |-> podman_hosts[h] \o ":8080",
                                  runtime |-> "podman"]])
             IN  IF container_hosts = <<>> THEN from_env
                 ELSE Resolution(container_hosts, NoneValue, TRUE, FALSE)

\* ---- pihole

\* load_pihole_hosts_from_env(): PIHOLE_<NAME>_HOST with the port and the
\* API key of the same name.
load_pihole_hosts_from_env(env) ==
    LET found == {var \in env.variables :
                     /\ StartsWith(var, "PIHOLE_") /\ EndsWith(var, "_HOST")
                     /\ var.prefix = "PIHOLE_" /\ ValueOf(var) # ""}
    IN  [display_name \in {Title(var.middle) : var \in found} |->
            LET var == CHOOSE v \in found : Title(v.middle) = display_name
            IN  [host |-> ValueOf(var),
                 port |-> EnvGet(env, "PIHOLE_", var.middle, "_PORT", "80"),
                 api_key |-> EnvGet(env, "PIHOLE_API_KEY_", var.middle, "", "")]]

\* load_pihole_hosts_from_ansible(): the hosts of the PiHole group on port
\* 80, else the environment.
load_pihole_hosts_from_ansible(env, file) ==
    LET hosts == load_group_hosts("PiHole", env.ANSIBLE_INVENTORY_PATH, file)
    IN  IF hosts = <<>>
        THEN Resolution(load_pihole_hosts_from_env(env), NoneValue, TRUE, TRUE)
        ELSE Resolution([display_name \in DOMAIN hosts |->
                            [host |-> hosts[display_name], port |-> "80",
                             api_key |-> EnvGet(env, "PIHOLE_API_KEY_", display_name,
                                                "", "")]],
                        NoneValue, TRUE, FALSE)

\* ---- the tools of the sub-servers that read or reload an endpoint table

\* The return of such a tool.
ServerReturn(server, kind, op, outcome) ==
    [server |-> server, kind |-> kind, op |-> op, resolved |-> outcome.resolved,
     scanned |-> outcome.scanned, returned |-> outcome.returned]

\* ollama list_hosts(), up to the table it works on.
ollama_list_hosts ==
    LET outcome == load_ollama_endpoints(endpoints_cache, environ, inventory_file)
    IN  /\ endpoints_cache' = outcome.cache
        /\ ret' = ServerReturn("ollama", "get", "list_hosts", outcome)
        /\ UNCHANGED <<now, unifiVars, sessionVars, inventoryVars, environ, ping_inventory_cache,
                       ups_inventory_cache>>

\* ollama reload_inventory()
ollama_reload_inventory ==
    LET outcome == load_ollama_endpoints(Invalidated(endpoints_cache), environ,
                                         inventory_file)
    IN  /\ endpoints_cache' = outcome.cache
        /\ ret' = ServerReturn("ollama", "reload", "reload_inventory", outcome)
        /\ UNCHANGED <<now, unifiVars, sessionVars, inventoryVars, environ, ping_inventory_cache,
                       ups_inventory_cache>>

\* ping list_hosts()
ping_list_hosts ==
    LET outcome == ping_load_inventory(ping_inventory_cache, environ, inventory_file)
    IN  /\ ping_inventory_cache' = outcome.cache
        /\ ret' = ServerReturn("ping", "get", "list_hosts", outcome)
        /\ UNCHANGED <<now, unifiVars, sessionVars, inventoryVars, environ, endpoints_cache,
                       ups_inventory_cache>>

\* ping reload_inventory()
ping_reload_inventory ==
    LET outcome == ping_load_inventory(Invalidated(ping_inventory_cache), environ,
                                       inventory_file)
    IN  /\ ping_inventory_cache' = outcome.cache
        /\ ret' = ServerReturn("ping", "reload", "reload_inventory", outcome)
        /\ UNCHANGED <<now, unifiVars, sessionVars, inventoryVars, environ, endpoints_cache,
                       ups_inventory_cache>>

\* ups list_hosts()
ups_list_hosts ==
    LET outcome == ups_load_inventory(ups_inventory_cache, environ, inventory_file)
    IN  /\ ups_inventory_cache' = outcome.cache
        /\ ret' = ServerReturn("ups", "get", "list_hosts", outcome)
        /\ UNCHANGED <<now, unifiVars, sessionVars, inventoryVars, environ, endpoints_cache,
                       ping_inventory_cache>>

\* ups reload_inventory()
ups_reload_inventory ==
    LET outcome == ups_load_inventory(Invalidated(ups_inventory_cache), environ,
                                      inventory_file)
    IN  /\ ups_inventory_cache' = outcome.cache
        /\ ret' = ServerReturn("ups", "reload", "reload_inventory", outcome)
        /\ UNCHANGED <<now, unifiVars, sessionVars, inventoryVars, environ, endpoints_cache,
                       ping_inventory_cache>>

\* The docker module builds its hosts table.
docker_load_hosts ==
    /\ ret' = ServerReturn("docker", "load", "load_container_hosts_from_ansible",
                           load_container_hosts_from_ansible(environ, inventory_file))
    /\ UNCHANGED <<now, unifiVars, sessionVars, inventoryVars, serverVars>>

\* The pihole server builds its hosts table.
pihole_load_hosts ==
    /\ ret' = ServerReturn("pihole", "load", "load_pihole_hosts_from_ansible",
                           load_pihole_hosts_from_ansible(environ, inventory_file))
    /\ UNCHANGED <<now, unifiVars, sessionVars, inventoryVars, serverVars>>

\* The inventories of the endpoint checks: groups of one host each.
GroupWith(hostname) ==
    Dict(<<Item("hosts", Dict(<<Item(hostname, NoneValue)>>))>>)
Homelab ==
    Dict(<<Item("all", Dict(<<Item("children", Dict(<<
        Item("ollama_servers", GroupWith("gpu1")),
        Item("nut_servers", GroupWith("nut1")),
        Item("PiHole", GroupWith("dns1")),
        Item("docker_hosts", GroupWith("dock1")),
        Item("podman_hosts", GroupWith("pod1"))>>))>>))>>)
OnlyNut ==
    Dict(<<Item("all", Dict(<<Item("children", Dict(<<
        Item("nut_servers", GroupWith("nut2"))>>))>>))>>)
NoGroups == Dict(<<Item("all", Dict(<<Item("children", Dict(<<>>))>>))>>)
ServerFiles ==
    {MissingFile, FileWith(NoneValue), FileWith(NoGroups), FileWith(OnlyNut),
     FileWith(Homelab)}

\* The environments of the endpoint checks.
HomelabVariables ==
    {EnvVar("OLLAMA_", "SERVER1", "", "192.168.1.100", "11434"),
     EnvVar("OLLAMA_", "PORT", "", "11434", ""),
     EnvVar("DOCKER_", "CYBER", "_ENDPOINT", "10.0.0.5", "2375"),
     EnvVar("PODMAN_", "HL15", "_ENDPOINT", "10.0.0.6", "8080"),
     EnvVar("PIHOLE_", "DELL", "_HOST", "10.0.0.2", ""),
     EnvVar("PIHOLE_API_KEY_", "DELL", "", "secret", ""),
     EnvVar("PING_TARGET", "1", "", "8.8.8.8", ""),
     EnvVar("PING_TARGET", "1", "_NAME", "Google-DNS", ""),
     EnvVar("NUT_", "PORT", "", "3493", "")}
Environments ==
    [ANSIBLE_INVENTORY_PATH : {"", "ansible_hosts.yml"},
     variables : {{}, HomelabVariables}]

\* The inventory file is written, or removed, from outside.
WriteInventoryFile ==
    /\ inventory_file' \in ServerFiles \ {inventory_file}
    /\ ret' = NoReturn
    /\ UNCHANGED <<now, unifiVars, sessionVars, inventory_cache, serverVars>>

InitServers ==
    /\ now = 0
    /\ session_cache = <<>>
    /\ task = [t \in Tasks |-> IdleTask]
    /\ ret = NoReturn
    /\ inventory_file \in ServerFiles
    /\ inventory_cache = NoneValue
    /\ environ \in Environments
    /\ endpoints_cache = NoneValue
    /\ ping_inventory_cache = NoneValue
    /\ ups_inventory_cache = NoneValue
    /\ UnifiAtRest

NextServers ==
    \/ list_all_hosts
    \/ reload_inventory
    \/ ollama_list_hosts
    \/ ollama_reload_inventory
    \/ ping_list_hosts
    \/ ping_reload_inventory
    \/ ups_list_hosts
    \/ ups_reload_inventory
    \/ docker_load_hosts
    \/ pihole_load_hosts
    \/ WriteInventoryFile

SpecServers == InitServers /\ [][NextServers]_vars

\* --------------------------------------------------------- Unifi data cache

\* CACHE_DURATION = timedelta(minutes=5)
CACHE_DURATION == 300

\* The clock of the Unifi checks stops here.
MaxUnifiTime == 720

\* The instants at which the Unifi tools are called.
UnifiInstants == {0, 60, 240, 300, 301, 360, 361, MaxUnifiTime}

\* The documents the exporter writes: non-empty JSON objects.
UnifiDocuments == {[devices |-> 1], [devices |-> 2]}

\* What a run of the exporter ends with: its exit code, whether it was killed
\* at the 30 s timeout, and its output file (none, unreadable, or JSON).
ExporterRuns ==
    [returncode : {0, 1}, timed_out : BOOLEAN,
     output : [kind : {"json"}, data : UnifiDocuments]
              \cup {[kind |-> "none", data |-> <<>>],
                    [kind |-> "unreadable", data |-> <<>>]}]

\* The cache file unifi_data.json: absent, or data written at mtime.
NoCacheFile == [exists |-> FALSE, data |-> <<>>, mtime |-> 0]

\* Mutant: a cache aged exactly CACHE_DURATION has expired.
CacheExpired_AtLimit(age) == age >= CACHE_DURATION

\* datetime.now() - cache_time > CACHE_DURATION
CacheExpired(age) == age > CACHE_DURATION

\* get_cached_data(): the data of the cache file, None when the file is
\* absent or has expired.
get_cached_data(file, t) ==
    IF ~file.exists THEN NoneValue
    ELSE IF CacheExpired(t - file.mtime) THEN NoneValue
    ELSE file.data

\* Mutant: nothing is written to the cache file.
save_cached_data_Dropped(file, data, t) == file

\* save_cached_data(data): the cache file holds the data, written now.
save_cached_data(file, data, t) == [exists |-> TRUE, data |-> data, mtime |-> t]

\* Mutant: a fetch that fails removes the cache file.
FetchRaised_CacheRemoved(error, file) ==
    [error |-> error, data |-> <<>>, file |-> NoCacheFile, fetches |-> 1]

\* What a fetch or a get ends with: the exception raised ("" when none), the
\* data returned, the cache file it leaves and the number of fetches it ran.
FetchRaised(error, file) == [error |-> error, data |-> <<>>, file |-> file, fetches |-> 1]

\* fetch_unifi_data(): the exporter is run and its output cached.
fetch_unifi_data(file, setup, run, t) ==
    IF ~setup.exporter THEN FetchRaised("FileNotFoundError: exporter", file)
    ELSE IF ~setup.api_key THEN FetchRaised("ValueError", file)
    ELSE IF ~run.timed_out /\ run.returncode # 0 THEN FetchRaised("RuntimeError", file)
    ELSE IF run.output.kind = "none" THEN FetchRaised("FileNotFoundError: output", file)
    ELSE IF run.output.kind = "unreadable" THEN FetchRaised("JSONDecodeError", file)
    ELSE [error |-> "", data |-> run.output.data,
          file |-> save_cached_data(file, run.output.data, t), fetches |-> 1]

\* get_unifi_data(): the cached data when there is some (`if data:`), else a
\* fetch.
get_unifi_data(file, setup, run, t) ==
    LET data == get_cached_data(file, t)
    IN  IF data # NoneValue /\ data # <<>>
        THEN [error |-> "", data |-> data, file |-> file, fetches |-> 0]
        ELSE fetch_unifi_data(file, setup, run, t)

\* The return of a Unifi tool: the tool catches every exception and answers
\* with a text; had_cache and age describe the cache file the call found.
UnifiReturn(kind, op, outcome) ==
    [server |-> "unifi", kind |-> kind, op |-> op, resolved |-> FALSE, scanned |-> FALSE,
     error |-> outcome.error, data |-> outcome.data, fetches |-> outcome.fetches,
     had_cache |-> cache_file.exists,
     age |-> IF cache_file.exists THEN now - cache_file.mtime ELSE 0]

UnifiGetTools == {"get_network_devices", "get_network_clients", "get_network_summary"}

\* get_network_devices(), get_network_clients(), get_network_summary()
get_network_data(tool, run) ==
    LET outcome == get_unifi_data(cache_file, unifi_setup, run, now)
    IN  /\ cache_file' = outcome.file
        /\ ret' = UnifiReturn("get", tool, outcome)
        /\ UNCHANGED <<now, sessionVars, inventoryVars, serverVars, unifi_setup>>

\* refresh_network_data()
refresh_network_data(run) ==
    LET outcome == fetch_unifi_data(cache_file, unifi_setup, run, now)
    IN  /\ cache_file' = outcome.file
        /\ ret' = UnifiReturn("refresh", "refresh_network_data", outcome)
        /\ UNCHANGED <<now, sessionVars, inventoryVars, serverVars, unifi_setup>>

\* Time passes between two calls.
Elapse ==
    /\ \E t \in UnifiInstants : t > now /\ now' = t
    /\ ret' = NoReturn
    /\ UNCHANGED <<sessionVars, inventoryVars, serverVars, unifiVars>>

InitUnifi ==
    /\ now = 0
    /\ session_cache = <<>>
    /\ task = [t \in Tasks |-> IdleTask]
    /\ ret = NoReturn
    /\ InventoryAtRest
    /\ ServersAtRest
    /\ cache_file = NoCacheFile
    /\ unifi_setup \in [exporter : BOOLEAN, api_key : BOOLEAN]

NextUnifi ==
    \/ \E tool \in UnifiGetTools, run \in ExporterRuns : get_network_data(tool, run)
    \/ \E run \in ExporterRuns : refresh_network_data(run)
    \/ Elapse

SpecUnifi == InitUnifi /\ [][NextUnifi]_vars

\* ------------------------------------------- the tools that take a name

\* How a remote request ends: with a response, or with None for an error
\* status, a timeout or a refused connection.
RemoteOutcomes == {"response", "none"}

\* How the ping subprocess ends: return code 0, another return code, the
\* timeout of wait_for, or an exception of the subprocess call.
PingOutcomes == {"reachable", "failed", "timeout", "exception"}

\* ping_host(host, count, timeout) with the subprocess ending as given.
ping_host(host, outcome) ==
    [host |-> host, reachable |-> outcome = "reachable",
     error |-> CASE outcome = "reachable" -> ""
                 [] outcome = "failed" -> "Ping failed with return code 1"
                 [] outcome = "timeout" -> "Ping timeout after 8 seconds"
                 [] OTHER -> "OSError: ping"]

\* get_host_ip(hostname, host_data)
get_host_ip(hostname, host_data) == host_data.vars.ansible_host

\* format_inventory_error(item_type, requested_name, inventory, discovery_tool)
format_inventory_error(item_type) ==
    IF item_type \in {"host", "group"}
    THEN Answer("not found", {"item", "available", "discovery"})
    ELSE Answer("not found", {"item"})

\* The return of a tool that takes a name: the name, whether the table the
\* tool resolved holds it, and the answer.
NameReturn(server, op, arg, outcome, known, answer) ==
    [server |-> server, kind |-> "lookup", op |-> op, arg |-> arg,
     resolved |-> outcome.resolved, scanned |-> outcome.scanned, known |-> known,
     raised |-> FALSE, answer |-> answer]

\* ping_host_by_name(hostname)
ping_host_by_name(hostname, ping) ==
    LET outcome == ping_load_inventory(ping_inventory_cache, environ, inventory_file)
        inventory == outcome.returned
        known == hostname \in DOMAIN inventory.hosts
    IN  /\ ping_inventory_cache' = outcome.cache
        /\ ret' = NameReturn("ping", "ping_host_by_name", hostname, outcome, known,
                             IF ~known THEN format_inventory_error("host")
                             ELSE IF ping_host(hostname, ping).reachable
                                 THEN Answer("ok", {"item"})
                             ELSE Answer("unreachable", {"item"}))
        /\ UNCHANGED <<now, unifiVars, sessionVars, inventoryVars, environ, endpoints_cache,
                       ups_inventory_cache>>

\* The targets pinged, in the order of Python's str.
TargetOrder == <<"8.8.8.8", "dns1", "dock1", "gpu1", "nut1", "pod1", "w1", "w2">>

\* Mutant: the summary counts every result.
Reachable_CountsAll(results) == Len(results)

\* sum(1 for r in results if r["reachable"])
Reachable(results) == Len(SelectSeq(results, LAMBDA r : r.reachable))

\* results.sort(key=lambda r: (not r["reachable"], r["host"])) of the results
\* gathered for the hostnames.
SortedResults(results) ==
    LET At(target, reachable) ==
            {hostname \in DOMAIN results :
                results[hostname].host = target /\ results[hostname].reachable = reachable}
        Ordered(reachable) ==
            SelectSeq(TargetOrder, LAMBDA target : At(target, reachable) # {})
        Picked(reachable) ==
            [i \in DOMAIN Ordered(reachable) |->
                results[CHOOSE hostname \in At(Ordered(reachable)[i], reachable) : TRUE]]
    IN  Picked(TRUE) \o Picked(FALSE)

\* ping_group(group): the pings of the members of the group are gathered,
\* whatever way each of them ends.
ping_group(group) ==
    LET outcome == ping_load_inventory(ping_inventory_cache, environ, inventory_file)
        inventory == outcome.returned
        known == group \in DOMAIN inventory.groups
        hostnames == IF known THEN inventory.groups[group] ELSE {}
        pinged == {hostname \in hostnames : hostname \in DOMAIN inventory.hosts}
    IN  /\ ping_inventory_cache' = outcome.cache
        /\ \E pings \in [pinged -> PingOutcomes] :
              LET results == SortedResults(
                      [hostname \in pinged |->
                          ping_host(get_host_ip(hostname, inventory.hosts[hostname]),
                                    pings[hostname])])
              IN  ret' = [NameReturn("ping", "ping_group", group, outcome, known,
                                     IF ~known THEN format_inventory_error("group")
                                     ELSE Answer("ok", {"item"}))
                          EXCEPT !.kind = "fan-out"]
                          @@ [hostnames |-> hostnames, pings |-> pings,
                              results |-> results, reachable |-> Reachable(results)]
        /\ UNCHANGED <<now, unifiVars, sessionVars, inventoryVars, environ, endpoints_cache,
                       ups_inventory_cache>>

\* container_api_request(host, endpoint): None for a host CONTAINER_HOSTS
\* does not hold, else what the request ends with.
container_api_request(container_hosts, host, response) ==
    IF host \notin DOMAIN container_hosts THEN "none" ELSE response

\* The tools of handle_call_tool_impl that take a hostname, with
\* CONTAINER_HOSTS as load_container_hosts_from_ansible built it.
docker_tool(name, hostname, response) ==
    LET outcome == load_container_hosts_from_ansible(environ, inventory_file)
        container_hosts == outcome.returned
        known == hostname \in DOMAIN container_hosts
        containers == container_api_request(container_hosts, hostname, response)
        connected == IF containers = "none" THEN Answer("connection", {"item"})
                     ELSE Answer("ok", {"item"})
    IN  /\ ret' = NameReturn("docker", name, hostname, outcome, known,
                CASE name = "get_docker_containers" ->
                        IF ~known THEN Answer("not found", {"item", "available"})
                        ELSE connected
                  [] name = "check_container" ->
                        IF hostname = "" THEN Answer("required", {}) ELSE connected
                  [] name = "get_container_labels" ->
                        IF hostname = "" THEN Answer("required", {})
                        ELSE IF ~known THEN Answer("not found", {"item"})
                        ELSE connected)
        /\ UNCHANGED <<now, unifiVars, sessionVars, inventoryVars, serverVars>>

DockerTools == {"get_docker_containers", "check_container", "get_container_labels"}

\* ollama list_models(host)
list_models(host, response) ==
    LET outcome == load_ollama_endpoints(endpoints_cache, environ, inventory_file)
        endpoints == outcome.returned
        known == host \in DOMAIN endpoints
    IN  /\ endpoints_cache' = outcome.cache
        /\ ret' = NameReturn("ollama", "list_models", host, outcome, known,
                             IF ~known THEN Answer("not found", {"item", "available"})
                             ELSE IF response = "none" THEN Answer("connection", {"item"})
                             ELSE Answer("ok", {"item"}))
        /\ UNCHANGED <<now, unifiVars, sessionVars, inventoryVars, environ,
                       ping_inventory_cache, ups_inventory_cache>>

\* ups get_details(host), for the first device of the host.
get_details(host, response) ==
    LET outcome == ups_load_inventory(ups_inventory_cache, environ, inventory_file)
        nut_servers == outcome.returned.nut_servers
        known == host \in DOMAIN nut_servers
    IN  /\ ups_inventory_cache' = outcome.cache
        /\ ret' = NameReturn("ups", "get_details", host, outcome, known,
                             IF ~known THEN Answer("not found", {"item", "available"})
                             ELSE IF response = "none" THEN Answer("connection", {"item"})
                             ELSE Answer("ok", {"item"}))
        /\ UNCHANGED <<now, unifiVars, sessionVars, inventoryVars, environ, endpoints_cache,
                       ping_inventory_cache>>

\* An inventory with a group of two hosts.
Rack ==
    Dict(<<Item("all", Dict(<<Item("children", Dict(<<
        Item("web", Dict(<<Item("hosts", Dict(<<Item("w1", NoneValue),
                                                Item("w2", NoneValue)>>))>>)),
        Item("nut_servers", GroupWith("nut1"))>>))>>))>>)

NameFiles == {MissingFile, FileWith(Homelab), FileWith(Rack)}

\* The names asked for: names the tables hold, and one none of them holds.
AskedNames == {"gpu1", "nut1", "dock1", "nosuch"}
AskedGroups == {"web", "docker_hosts", "nosuch"}

InitNames ==
    /\ now = 0
    /\ session_cache = <<>>
    /\ task = [t \in Tasks |-> IdleTask]
    /\ ret = NoReturn
    /\ inventory_file \in NameFiles
    /\ inventory_cache = NoneValue
    /\ environ \in {e \in Environments : e.ANSIBLE_INVENTORY_PATH = "ansible_hosts.yml"}
    /\ endpoints_cache = NoneValue
    /\ ping_inventory_cache = NoneValue
    /\ ups_inventory_cache = NoneValue
    /\ UnifiAtRest

NextNames ==
    \/ \E hostname \in {"gpu1", "nosuch"}, ping \in {"reachable", "timeout"} :
            ping_host_by_name(hostname, ping)
    \/ \E group \in AskedGroups : ping_group(group)
    \/ \E hostname \in AskedNames : get_host_details(hostname)
    \/ \E group_name \in AskedGroups : get_group_hosts(group_name)
    \/ \E name \in DockerTools, hostname \in {"dock1", "nosuch"}, response \in RemoteOutcomes :
            docker_tool(name, hostname, response)
    \/ \E host \in {"gpu1", "nosuch"}, response \in RemoteOutcomes : list_models(host, response)
    \/ \E host \in {"nut1", "nosuch"}, response \in RemoteOutcomes : get_details(host, response)

SpecNames == InitNames /\ [][NextNames]_vars

\* --------------------------------------------------------- remote requests


\* aiohttp.ClientTimeout(total=timeout) with the default timeout of the
\* request functions; the timeout of wait_for in query_nut_server; the
\* default timeout of ping_group, to which ping_host adds 5.
HTTP_TIMEOUT == 5
NUT_TIMEOUT == 5
PING_TIMEOUT == 3

\* A peer that answers does so within this time.
MaxLatency == 2

\* Requests are made while there is time left for four answers.
MaxRemoteTime == 4 * MaxLatency + 1

\* The remote requests: an HTTP call (Pi-hole, Docker/Podman, Ollama), the
\* ping subprocess, the NUT query without and with credentials.
RequestKinds == {"http", "ping", "nut", "nut-login"}

\* The peer: it answers; it accepts the connection and never answers; it
\* refuses the connection; it does not answer the connection attempt.
Peers == {"answers", "silent", "refused", "unreachable"}

\* A request awaiting something: where it is, the time at which its timeout
\* fires (Absent when the await has no timeout) and the time by which the
\* peer's answer is there (Absent when none comes).
Awaiting(kind, peer, pc, timeout, answered) ==
    [pc |-> pc, kind |-> kind, peer |-> peer,
     deadline |-> IF timeout = Absent THEN Absent ELSE now + timeout,
     answer_by |-> IF answered THEN now + MaxLatency ELSE Absent]

\* The return of a request: a response, or None.
RemoteReturn(request, result) ==
    [server |-> "remote", kind |-> "request", op |-> request.kind, peer |-> request.peer,
     pc |-> request.pc, result |-> result]

\* The request is made, up to its first await: session.get under the total
\* timeout, process.communicate() under wait_for, or open_connection under
\* wait_for.
StartRequest(t, kind, peer) ==
    /\ task[t].pc = "idle"
    /\ now + 4 * MaxLatency <= MaxRemoteTime
    /\ task' = [task EXCEPT ![t] =
            CASE kind = "http" ->
                    Awaiting(kind, peer, "response", HTTP_TIMEOUT, peer \in {"answers", "refused"})
              [] kind = "ping" ->
                    Awaiting(kind, peer, "communicate", PING_TIMEOUT + 5, peer = "answers")
              [] OTHER ->
                    Awaiting(kind, peer, "connect", NUT_TIMEOUT, peer # "unreachable")]
    /\ ret' = NoReturn
    /\ UNCHANGED <<now, session_cache, inventoryVars, serverVars, unifiVars>>

\* What the request was waiting for arrives: the HTTP response or the refusal
\* of the connection, the end of the ping process, or the next step of the NUT
\* exchange: the connection, the reply to USERNAME, the reply to PASSWORD
\* (both read by `await reader.readline()` without a timeout), the lines up to
\* END LIST VAR (each read under wait_for).
Arrive(t) ==
    LET request == task[t]
        answers == request.peer = "answers"
        Next(pc, timeout) == Awaiting(request.kind, request.peer, pc, timeout, answers)
    IN  /\ request.pc # "idle"
        /\ request.answer_by # Absent
        /\ IF request.pc = "connect" /\ request.peer # "refused"
           THEN /\ task' = [task EXCEPT ![t] =
                        IF request.kind = "nut-login" THEN Next("username", Absent)
                        ELSE Next("list", NUT_TIMEOUT)]
                /\ ret' = NoReturn
           ELSE IF request.pc = "username"
           THEN /\ task' = [task EXCEPT ![t] = Next("password", Absent)]
                /\ ret' = NoReturn
           ELSE IF request.pc = "password"
           THEN /\ task' = [task EXCEPT ![t] = Next("list", NUT_TIMEOUT)]
                /\ ret' = NoReturn
           ELSE /\ task' = [task EXCEPT ![t] = IdleTask]
                /\ ret' = RemoteReturn(request,
                                       IF request.peer = "refused" THEN "none" ELSE "response")
        /\ UNCHANGED <<now, session_cache, inventoryVars, serverVars, unifiVars>>

\* The timeout of the await fires: asyncio.TimeoutError is caught and the
\* request returns None.
TimeOut(t) ==
    /\ task[t].pc # "idle"
    /\ task[t].deadline = now
    /\ task' = [task EXCEPT ![t] = IdleTask]
    /\ ret' = RemoteReturn(task[t], "none")
    /\ UNCHANGED <<now, session_cache, inventoryVars, serverVars, unifiVars>>

\* Time passes, but not past a timeout that is due or an answer that is there.
Pass ==
    /\ now < MaxRemoteTime
    /\ \A t \in Tasks :
           task[t].pc # "idle" => now # task[t].deadline /\ now # task[t].answer_by
    /\ now' = now + 1
    /\ UNCHANGED <<session_cache, task, ret, inventoryVars, serverVars, unifiVars>>

InitRemote ==
    /\ now = 0
    /\ session_cache = <<>>
    /\ task = [t \in Tasks |-> IdleTask]
    /\ ret = NoReturn
    /\ InventoryAtRest
    /\ ServersAtRest
    /\ UnifiAtRest

NextRemote ==
    \/ \E t \in Tasks, kind \in RequestKinds, peer \in Peers : StartRequest(t, kind, peer)
    \/ \E t \in Tasks : Arrive(t)
    \/ \E t \in Tasks : TimeOut(t)
    \/ Pass

\* The event loop runs every coroutine whose await is over and fires every
\* timer that is due; time passes.
SpecRemote ==
    /\ InitRemote /\ [][NextRemote]_vars
    /\ WF_vars(Pass)
    /\ \A t \in Tasks : WF_vars(Arrive(t)) /\ WF_vars(TimeOut(t))

\* ------------------------------------------------- logged and returned texts

\* A text is a sequence of tokens: a word, or a key, a separator and a value
\* (api_key=abc).
Token(k, sep, v) == [k |-> k, sep |-> sep, v |-> v]
Word(w) == Token("", "", w)

\* The keys the default_patterns of sanitize_sensitive_data match
\* (api[_-]?key, password, token, secret, sid), among the keys used.
SensitiveKeys == {"api_key", "apikey", "password", "token", "secret", "sid"}

\* sanitize_sensitive_data(text): the value that follows a matched key and
\* one of `=`, `:` or white space is replaced by ***.
sanitize_sensitive_data(text) ==
    [i \in DOMAIN text |->
        IF text[i].k \in SensitiveKeys /\ text[i].sep \in {"=", ":", " "}
        THEN [text[i] EXCEPT !.v = "***"] ELSE text[i]]

\* f"{k}={v}" for an item of the context.
ContextItem(k, value) ==
    IF Len(value) = 1 /\ value[1].k = "" THEN <<Token(k, "=", value[1].v)>>
    ELSE <<Token(k, "=", "")>> \o value

\* log_error_with_context(logger, message, error, context): the message, the
\* sanitized context, and the text of the exception.
log_error_with_context(message, error, context) ==
    message
    \o (IF context = <<>> THEN <<>>
        ELSE <<Word("Context:")>>
             \o sanitize_sensitive_data(ContextItem(context.k, context.value)))
    \o (IF error = <<>> THEN <<>> ELSE <<Word("Exception:")>> \o error)

\* Where the secret is when a text is written: in a value of the context of
\* log_error_with_context, in the text of the exception it is given, in its
\* message, in the arguments of a tool call (PiholeMCPServer.handle_tool), in
\* the stderr of the Unifi exporter (fetch_unifi_data).
Places == {"context", "exception", "message", "arguments", "stderr"}
TextKeys == SensitiveKeys \cup {"host", "key"}
Separators == {"=", ":", " ", "': '"}
Secrets == {"alpha", "beta"}

\* The text logged and the text returned to the caller when the secret has
\* the given value.
Written(place, key, sep, secret) ==
    CASE place = "context" ->
            [logged |-> log_error_with_context(<<Word("Pi-hole API request error")>>, <<>>,
                                               [k |-> key, value |-> <<Word(secret)>>]),
             returned |-> <<>>]
      [] place = "exception" ->
            [logged |-> log_error_with_context(<<Word("Pi-hole API request error")>>,
                                               <<Token(key, sep, secret)>>,
                                               [k |-> "host", value |-> <<Word("dell")>>]),
             returned |-> <<>>]
      [] place = "message" ->
            [logged |-> log_error_with_context(<<Token(key, sep, secret)>>, <<>>, <<>>),
             returned |-> <<>>]
      [] place = "arguments" ->
            [logged |-> <<Word("Tool called:"), Token(key, "': '", secret)>>,
             returned |-> <<>>]
      [] OTHER ->
            [logged |-> log_error_with_context(
                            <<Word("Unifi exporter failed with code 1")>>, <<>>,
                            [k |-> "stderr", value |-> <<Token(key, sep, secret)>>]),
             returned |-> <<Word("Unifi exporter process failed"),
                            Token(key, sep, secret)>>]

\* A text is written, in each of the runs that differ in the secret alone.
WriteText(place, key, sep) ==
    /\ place \in {"context", "arguments"} => sep = "="
    /\ ret' = [server |-> "log", kind |-> "text", op |-> place, key |-> key, sep |-> sep,
               logged |-> [secret \in Secrets |-> Written(place, key, sep, secret).logged],
               returned |-> [secret \in Secrets |->
                                Written(place, key, sep, secret).returned]]
    /\ UNCHANGED <<now, sessionVars, inventoryVars, serverVars, unifiVars>>

InitTexts ==
    /\ now = 0
    /\ session_cache = <<>>
    /\ task = [t \in Tasks |-> IdleTask]
    /\ ret = NoReturn
    /\ InventoryAtRest
    /\ ServersAtRest
    /\ UnifiAtRest

NextTexts == \E place \in Places, key \in TextKeys, sep \in Separators : WriteText(place, key, sep)

SpecTexts == InitTexts /\ [][NextTexts]_vars

\* --------------------------------------------------- hostname normalization

\* A hostname is the sequence of its characters.
\* str.lower() of a character, for the upper-case letters used.
LowerChar(c) ==
    CASE c = "A" -> "a" [] c = "B" -> "b" [] c = "D" -> "d" [] c = "E" -> "e"
      [] c = "H" -> "h" [] c = "R" -> "r" [] c = "S" -> "s" [] c = "V" -> "v"
      [] c = "W" -> "w" [] OTHER -> c

\* hostname.lower()
LowerAll(hostname) == [i \in DOMAIN hostname |-> LowerChar(hostname[i])]

\* .replace("_", "-")
ReplaceUnderscores(hostname) ==
    [i \in DOMAIN hostname |-> IF hostname[i] = "_" THEN "-" ELSE hostname[i]]

\* Mutant: the last label alone is removed.
StripDomain_LastLabel(hostname) ==
    LET dots == {i \in DOMAIN hostname : hostname[i] = "."}
    IN  IF dots = {} THEN hostname
        ELSE SubSeq(hostname, 1, (CHOOSE i \in dots : \A j \in dots : j <= i) - 1)

\* The domain suffix is removed: everything from the first `.` on.
StripDomain(hostname) ==
    LET dots == {i \in DOMAIN hostname : hostname[i] = "."}
    IN  IF dots = {} THEN hostname
        ELSE SubSeq(hostname, 1, (CHOOSE i \in dots : \A j \in dots : i <= j) - 1)

\* AnsibleConfigManager._normalize_hostname(hostname): lower case, hyphens for
\* underscores, no domain suffix.
normalize_hostname(hostname) == StripDomain(ReplaceUnderscores(LowerAll(hostname)))

\* The cases of TestHostnameNormalization.
TestCases ==
    {[hostname |->
         <<"S", "e", "r", "v", "e", "r", "_", "1", ".", "e", "x", "a", "m", "p", "l", "e", ".", "c", "o", "m">>,
      expected |-> <<"s", "e", "r", "v", "e", "r", "-", "1">>],
     [hostname |->
         <<"w", "e", "b", "-", "0", "1">>,
      expected |-> <<"w", "e", "b", "-", "0", "1">>],
     [hostname |->
         <<"W", "E", "B", "S", "E", "R", "V", "E", "R">>,
      expected |-> <<"w", "e", "b", "s", "e", "r", "v", "e", "r">>],
     [hostname |->
         <<"d", "o", "c", "k", "e", "r", "_", "h", "o", "s", "t", "_", "1">>,
      expected |-> <<"d", "o", "c", "k", "e", "r", "-", "h", "o", "s", "t", "-", "1">>],
     [hostname |->
         <<"D", "o", "c", "k", "e", "r", "_", "H", "o", "s", "t", "_", "1", ".", "l", "o", "c", "a", "l", ".", "d", "o", "m", "a", "i", "n">>,
      expected |-> <<"d", "o", "c", "k", "e", "r", "-", "h", "o", "s", "t", "-", "1">>]}

MaxLen == 3
Alphabet == {"A", "b", "_", "-", ".", "1"}

\* The hostnames normalized: those of the tests, and every string over the
\* alphabet up to the length MaxLen.
NormalizedInputs ==
    {case.hostname : case \in TestCases}
    \cup UNION {[1..n -> Alphabet] : n \in 0..MaxLen}

\* A hostname is normalized, and the result is normalized again.
NormalizeHostname(hostname) ==
    /\ ret' = [server |-> "manager", kind |-> "normalize", op |-> "_normalize_hostname",
               hostname |-> hostname, result |-> normalize_hostname(hostname),
               again |-> normalize_hostname(normalize_hostname(hostname))]
    /\ UNCHANGED <<now, sessionVars, inventoryVars, serverVars, unifiVars>>

InitNormalize ==
    /\ now = 0
    /\ session_cache = <<>>
    /\ task = [t \in Tasks |-> IdleTask]
    /\ ret = NoReturn
    /\ InventoryAtRest
    /\ ServersAtRest
    /\ UnifiAtRest

NextNormalize == \E hostname \in NormalizedInputs : NormalizeHostname(hostname)

SpecNormalize == InitNormalize /\ [][NextNormalize]_vars

\* ------------------------------------------------------ the unified server
\* A sub-server module, as the unified server sees it after `import`: the
\* names of its module-level FastMCP tools, the objects that carry `.fn`.
ansible_mcp_server ==
    {"list_all_hosts", "list_groups", "get_host_details", "get_group_hosts",
     "query_hosts", "reload_inventory"}

ping_mcp_server ==
    {"list_groups", "list_hosts", "reload_inventory", "ping_host_by_name",
     "ping_group", "ping_all"}

ollama_mcp ==
    {"list_hosts", "list_models", "get_model_info", "get_running_models",
     "reload_inventory"}

ups_mcp_server ==
    {"list_hosts", "reload_inventory", "get_status", "get_details", "get_battery_info"}

unifi_mcp_optimized ==
    {"get_network_devices", "get_network_clients", "get_network_summary",
     "refresh_network_data"}

\* docker_mcp_podman and pihole_mcp register their tools with the low-level
\* Server (handle_list_tools / handle_call_tool): no module-level tool exists.
docker_mcp_podman == {}

pihole_mcp == {}

SubServer(module) ==
    CASE module = "ansible_mcp_server" -> ansible_mcp_server
      [] module = "ping_mcp_server" -> ping_mcp_server
      [] module = "ollama_mcp" -> ollama_mcp
      [] module = "ups_mcp_server" -> ups_mcp_server
      [] module = "unifi_mcp_optimized" -> unifi_mcp_optimized
      [] module = "docker_mcp_podman" -> docker_mcp_podman
      [] module = "pihole_mcp" -> pihole_mcp

\* One wrapper of the unified server: `return <module>.<target>.fn(<forwarded>)`.
Wrapper(tool, module, target, params, forwarded) ==
    [tool |-> tool, module |-> module, target |-> target, params |-> params,
     forwarded |-> forwarded]

AnsibleWrappers ==
    {Wrapper("ansible_list_all_hosts", "ansible_mcp_server", "list_all_hosts", {}, <<>>),
     Wrapper("ansible_list_groups", "ansible_mcp_server", "list_groups", {}, <<>>),
     Wrapper("ansible_get_host_details", "ansible_mcp_server", "get_host_details",
             {"hostname"}, <<"hostname">>),
     Wrapper("ansible_get_group_hosts", "ansible_mcp_server", "get_group_hosts",
             {"group"}, <<"group">>),
     Wrapper("ansible_query_hosts", "ansible_mcp_server", "query_hosts",
             {"pattern", "variable", "value"}, <<"pattern", "variable", "value">>),
     Wrapper("ansible_reload_inventory", "ansible_mcp_server", "reload_inventory", {}, <<>>)}

DockerWrappers ==
    {Wrapper("docker_list_all_hosts", "docker_mcp_podman", "list_all_hosts", {}, <<>>),
     Wrapper("docker_list_containers", "docker_mcp_podman", "list_containers",
             {"host"}, <<"host">>),
     Wrapper("docker_get_container_details", "docker_mcp_podman", "get_container_details",
             {"container_id", "host"}, <<"host", "container_id">>),
     Wrapper("docker_get_container_logs", "docker_mcp_podman", "get_container_logs",
             {"container_id", "host", "lines"}, <<"host", "container_id", "lines">>),
     Wrapper("docker_get_stats", "docker_mcp_podman", "get_stats", {"host"}, <<"host">>),
     Wrapper("docker_reload_inventory", "docker_mcp_podman", "reload_inventory", {}, <<>>)}

PingWrappers ==
    {Wrapper("ping_list_groups", "ping_mcp_server", "list_groups", {}, <<>>),
     Wrapper("ping_list_hosts", "ping_mcp_server", "list_hosts", {}, <<>>),
     Wrapper("ping_reload_inventory", "ping_mcp_server", "reload_inventory", {}, <<>>),
     Wrapper("ping_host_by_name", "ping_mcp_server", "ping_host_by_name",
             {"hostname", "count", "timeout"}, <<"hostname", "count", "timeout">>),
     Wrapper("ping_group", "ping_mcp_server", "ping_group",
             {"group", "count", "timeout"}, <<"group", "count", "timeout">>),
     Wrapper("ping_all", "ping_mcp_server", "ping_all",
             {"count", "timeout"}, <<"count", "timeout">>)}

OllamaWrappers ==
    {Wrapper("ollama_list_hosts", "ollama_mcp", "list_hosts", {}, <<>>),
     Wrapper("ollama_list_models", "ollama_mcp", "list_models", {"host"}, <<"host">>),
     Wrapper("ollama_get_model_info", "ollama_mcp", "get_model_info",
             {"model_name", "host"}, <<"host", "model_name">>),
     Wrapper("ollama_get_running_models", "ollama_mcp", "get_running_models", {}, <<>>),
     Wrapper("ollama_reload_inventory", "ollama_mcp", "reload_inventory", {}, <<>>)}

PiholeWrappers ==
    {Wrapper("pihole_list_hosts", "pihole_mcp", "list_hosts", {}, <<>>),
     Wrapper("pihole_get_summary", "pihole_mcp", "get_summary", {}, <<>>),
     Wrapper("pihole_get_top_items", "pihole_mcp", "get_top_items",
             {"display_name", "limit"}, <<"display_name", "limit">>),
     Wrapper("pihole_get_query_types", "pihole_mcp", "get_query_types",
             {"display_name"}, <<"display_name">>),
     Wrapper("pihole_get_forward_destinations", "pihole_mcp", "get_forward_destinations",
             {"display_name"}, <<"display_name">>),
     Wrapper("pihole_reload_inventory", "pihole_mcp", "reload_inventory", {}, <<>>)}

UnifiWrappers ==
    {Wrapper("unifi_list_devices", "unifi_mcp_optimized", "list_devices", {}, <<>>),
     Wrapper("unifi_get_device_details", "unifi_mcp_optimized", "get_device_details",
             {"device_id"}, <<"device_id">>),
     Wrapper("unifi_list_clients", "unifi_mcp_optimized", "list_clients", {}, <<>>),
     Wrapper("unifi_get_client_details", "unifi_mcp_optimized", "get_client_details",
             {"client_id"}, <<"client_id">>),
     Wrapper("unifi_get_network_stats", "unifi_mcp_optimized", "get_network_stats",
             {}, <<>>)}

UpsWrappers ==
    {Wrapper("ups_list_hosts", "ups_mcp_server", "list_hosts", {}, <<>>),
     Wrapper("ups_get_status", "ups_mcp_server", "get_status", {}, <<>>),
     Wrapper("ups_get_details", "ups_mcp_server", "get_details",
             {"host", "ups_name"}, <<"host", "ups_name">>),
     Wrapper("ups_get_battery_info", "ups_mcp_server", "get_battery_info", {}, <<>>),
     Wrapper("ups_reload_inventory", "ups_mcp_server", "reload_inventory", {}, <<>>)}

\* Every `@mcp.tool()` of the unified server that forwards to a sub-server.
Wrappers ==
    AnsibleWrappers \cup DockerWrappers \cup PingWrappers \cup OllamaWrappers
        \cup PiholeWrappers \cup UnifiWrappers \cup UpsWrappers

ToolsOf(wrappers) == {w.tool : w \in wrappers}

\* The hand-written catalog of homelab_get_tool_catalog.
tools_by_category ==
    [ansible |-> ToolsOf(AnsibleWrappers), docker |-> ToolsOf(DockerWrappers),
     ping |-> ToolsOf(PingWrappers), ollama |-> ToolsOf(OllamaWrappers),
     pihole |-> ToolsOf(PiholeWrappers), unifi |-> ToolsOf(UnifiWrappers),
     ups |-> ToolsOf(UpsWrappers), homelab |-> {"homelab_get_tool_catalog"}]

RECURSIVE TotalTools(_)
TotalTools(categories) ==
    IF categories = {} THEN 0
    ELSE LET c == CHOOSE x \in categories : TRUE
         IN  Cardinality(tools_by_category[c]) + TotalTools(categories \ {c})

ArgumentValues == {"a", "b", "c"}

\* A client calls one forwarding tool: the wrapper's body evaluates
\* `<module>.<target>` first, which raises AttributeError when the module has
\* no such attribute; otherwise the sub-server's function runs on the
\* arguments in the forwarded order and its result is returned.
call_tool(w, arguments) ==
    LET defined == w.target \in SubServer(w.module)
    IN  /\ ret' = [server |-> "unified", op |-> "call", tool |-> w.tool,
                   module |-> w.module, target |-> w.target, arguments |-> arguments,
                   defined |-> defined,
                   outcome |-> IF defined THEN "result" ELSE "AttributeError",
                   forwarded |-> IF defined
                                 THEN [i \in DOMAIN w.forwarded |->
                                          arguments[w.forwarded[i]]]
                                 ELSE <<>>]
        /\ UNCHANGED <<now, sessionVars, inventoryVars, serverVars, unifiVars>>

homelab_get_tool_catalog ==
    /\ ret' = [server |-> "unified", op |-> "catalog", tool |-> "homelab_get_tool_catalog",
               categories |-> tools_by_category,
               total_tools |-> TotalTools(DOMAIN tools_by_category),
               outcome |-> "result"]
    /\ UNCHANGED <<now, sessionVars, inventoryVars, serverVars, unifiVars>>

InitUnified ==
    /\ now = 0
    /\ session_cache = <<>>
    /\ task = [t \in Tasks |-> IdleTask]
    /\ ret = NoReturn
    /\ InventoryAtRest
    /\ ServersAtRest
    /\ UnifiAtRest

NextUnified ==
    \/ \E w \in Wrappers : \E arguments \in [w.params -> ArgumentValues] :
          call_tool(w, arguments)
    \/ homelab_get_tool_catalog

SpecUnified == InitUnified /\ [][NextUnified]_vars

\* ------------------------------------------------- the inventories checked

Hostnames == {"h1", "h2"}

\* Host variables: none (`h1:` alone) or {k: 1}.
HostVarChoices == {NoneValue, Dict(<<Item("k", Scalar(1))>>)}

\* `hosts` mappings.
HostMaps ==
    {Dict(<<Item(h, hv)>>) : h \in Hostnames, hv \in HostVarChoices}
    \cup {Dict(<<Item("h1", hv), Item("h2", NoneValue)>>) : hv \in HostVarChoices}

\* An optional item of a mapping: absent when the value is NoneValue.
Opt(k, value) == IF value = NoneValue THEN <<>> ELSE <<Item(k, value)>>

\* `vars` mappings with the value they give k.
VarsOf(n) == Dict(<<Item("k", Scalar(n))>>)

\* Groups with no sub-group: `g:` alone, or hosts and vars, each optional.
LeafGroups ==
    {NoneValue}
    \cup {Dict(Opt("hosts", hs) \o Opt("vars", vs)) :
            hs \in {NoneValue} \cup HostMaps, vs \in {NoneValue, VarsOf(2)}}

\* Groups g1 with an optional sub-group `sub`.
MidGroups ==
    {Dict(Opt("hosts", hs) \o Opt("vars", vs)
          \o Opt("children", IF sub = NoneValue THEN NoneValue
                             ELSE Dict(<<Item("sub", sub)>>))) :
        hs \in {NoneValue, Dict(<<Item("h1", NoneValue)>>)},
        vs \in {NoneValue, VarsOf(3)},
        sub \in LeafGroups}

\* The `all` node: optional hosts of its own, optional vars, the children g1
\* and optionally g2, and optionally a group `extra` nested without
\* `children`.
RootNodes ==
    {Dict(Opt("hosts", hs) \o Opt("vars", vs)
          \o <<Item("children", Dict(<<Item("g1", g1)>> \o Opt("g2", g2)))>>
          \o Opt("extra", extra)) :
        hs \in {NoneValue, Dict(<<Item("h1", Dict(<<Item("k", Scalar(1))>>))>>),
                Dict(<<Item("h2", NoneValue)>>)},
        vs \in {NoneValue, VarsOf(4)},
        g1 \in MidGroups,
        g2 \in {NoneValue, Dict(<<Item("hosts", Dict(<<Item("h1", NoneValue)>>))>>)},
        extra \in {NoneValue, Dict(<<Item("hosts", Dict(<<Item("h2", NoneValue)>>))>>)}}

\* The documents of the inventory file.
Inventories == {Dict(<<Item("all", root)>>) : root \in RootNodes}

InitInventory ==
    /\ now = 0
    /\ session_cache = <<>>
    /\ task = [t \in Tasks |-> IdleTask]
    /\ ret = NoReturn
    /\ inventory_file \in {MissingFile} \cup {FileWith(doc) : doc \in Inventories}
    /\ inventory_cache = NoneValue
    /\ ServersAtRest
    /\ UnifiAtRest

NextInventory ==
    \/ list_all_hosts
    \/ \E hostname \in Hostnames : get_host_details(hostname)
    \/ reload_inventory

SpecInventory == InitInventory /\ [][NextInventory]_vars

\* ------------------------------------------- inventories with keys reordered

\* The orders in which n keys can be written, the given order left out.
Reorderings(n) ==
    {perm \in [1..n -> 1..n] :
        /\ \A i, j \in 1..n : perm[i] = perm[j] => i = j
        /\ \E i \in 1..n : perm[i] # i}

RECURSIVE Levels(_), LevelsEach(_)

LevelsEach(items) ==
    IF items = <<>> THEN {}
    ELSE {<<Head(items).k>> \o level : level \in Levels(Head(items).val)}
         \cup LevelsEach(Tail(items))

\* The nesting levels of a document that hold two keys or more, each as the
\* keys that lead to its mapping.
Levels(data) ==
    IF ~IsDict(data) THEN {}
    ELSE (IF Len(data.items) >= 2 THEN {<<>>} ELSE {}) \cup LevelsEach(data.items)

RECURSIVE MappingAt(_, _)
MappingAt(data, level) ==
    IF level = <<>> THEN data ELSE MappingAt(Get(data, Head(level)), Tail(level))

\* The document with the keys of one level written in another order; every
\* key keeps its value, every other level its order.
RECURSIVE ReorderedAt(_, _, _)
ReorderedAt(data, level, perm) ==
    IF level = <<>> THEN Dict([i \in DOMAIN data.items |-> data.items[perm[i]]])
    ELSE Dict([i \in DOMAIN data.items |->
                  IF data.items[i].k = Head(level)
                  THEN Item(data.items[i].k,
                            ReorderedAt(data.items[i].val, Tail(level), perm))
                  ELSE data.items[i]])

RECURSIVE HasKey(_, _), HasKeyEach(_, _)
HasKeyEach(items, k) ==
    items # <<>> /\ (HasKey(Head(items).val, k) \/ HasKeyEach(Tail(items), k))
HasKey(data, k) == IsDict(data) /\ (Has(data, k) \/ HasKeyEach(data.items, k))

\* The synthetic inventories: those without group variables, which the
\* resolver skips.
ReorderInventories == {doc \in Inventories : ~HasKey(doc, "vars")}

\* list_all_hosts on the file as it is, and again after the keys of one
\* level were rewritten in another order and the inventory reloaded.
ListReordered(level, perm) ==
    LET doc == inventory_file.doc
        reordered == ReorderedAt(doc, level, perm)
    IN  /\ level \in Levels(doc)
        /\ perm \in Reorderings(Len(MappingAt(doc, level).items))
        /\ ret' = [server |-> "ansible", kind |-> "reorder", op |-> "list_reordered",
                   inventory |-> doc, level |-> level, reordered |-> reordered,
                   raised |-> HostsOf(doc).raised \/ HostsOf(reordered).raised,
                   hosts |-> HostsOf(doc).hosts,
                   reordered_hosts |-> HostsOf(reordered).hosts]
        /\ UNCHANGED <<now, sessionVars, inventoryVars, serverVars, unifiVars>>

InitReorder ==
    /\ now = 0
    /\ session_cache = <<>>
    /\ task = [t \in Tasks |-> IdleTask]
    /\ ret = NoReturn
    /\ inventory_file \in {FileWith(doc) : doc \in ReorderInventories}
    /\ inventory_cache = NoneValue
    /\ ServersAtRest
    /\ UnifiAtRest

NextReorder ==
    \E level \in Levels(inventory_file.doc) :
        \E perm \in Reorderings(Len(MappingAt(inventory_file.doc, level).items)) :
            ListReordered(level, perm)

SpecReorder == InitReorder /\ [][NextReorder]_vars

\* ------------------------------------- the inventory files of the group tools

\* The sub-group of g1: none, `sub:` alone, `sub: {}`, or hosts (and vars).
SubGroupChoices ==
    {<<>>}
    \cup {<<Item("sub", sub)>> :
            sub \in {NoneValue, Dict(<<>>),
                     Dict(<<Item("hosts", Dict(<<Item("h2", NoneValue)>>))>>),
                     Dict(<<Item("hosts", Dict(<<Item("h1", Dict(<<Item("k", Scalar(1))>>)),
                                                 Item("h2", NoneValue)>>)),
                            Item("vars", VarsOf(2))>>)}}

\* g1: optional hosts of its own and the optional sub-group.
GroupsWithSub ==
    {Dict(Opt("hosts", hs)
          \o (IF sub = <<>> THEN <<>> ELSE <<Item("children", Dict(sub))>>)) :
        hs \in {NoneValue, Dict(<<Item("h1", NoneValue)>>)},
        sub \in SubGroupChoices}

\* The `all` node: optional hosts of its own, the children g1 and optionally
\* g2 (`g2:` alone, or with a host), and optionally a group `extra` nested
\* without `children`.
GroupRootNodes ==
    {Dict(Opt("hosts", hs)
          \o <<Item("children", Dict(<<Item("g1", g1)>> \o g2))>>
          \o Opt("extra", extra)) :
        hs \in {NoneValue, Dict(<<Item("h2", Dict(<<Item("k", Scalar(1))>>))>>)},
        g1 \in GroupsWithSub,
        g2 \in {<<>>, <<Item("g2", NoneValue)>>,
                <<Item("g2", Dict(<<Item("hosts", Dict(<<Item("h1", NoneValue)>>))>>))>>},
        extra \in {NoneValue, Dict(<<Item("hosts", Dict(<<Item("h2", NoneValue)>>))>>)}}

GroupInventories == {Dict(<<Item("all", root)>>) : root \in GroupRootNodes}

\* Documents the tools do not expect: an empty file (None), a document that
\* is no mapping, a text that is no YAML, `all:` alone, and a `hosts:` or a
\* `children:` with nothing under it.
MalformedInventories ==
    {NoneValue, Scalar(7), Unparsable,
     Dict(<<Item("all", NoneValue)>>),
     Dict(<<Item("all", Dict(<<Item("hosts", NoneValue)>>))>>),
     Dict(<<Item("all", Dict(<<Item("children", NoneValue)>>))>>),
     Dict(<<Item("all", Dict(<<Item("children",
         Dict(<<Item("g1", Dict(<<Item("hosts", NoneValue)>>))>>))>>))>>)}

InventoryDocuments == GroupInventories \cup MalformedInventories

\* The names asked for: hosts and groups that the inventories declare, the
\* path of the nested group, and a name none of them declares.
GroupNames == {"g1", "g2", "sub", "extra", "g1/sub", "nosuch"}
QueriedHosts == Hostnames \cup {"nosuch"}
Patterns == {"", "h*", "h2"}
VariableQueries == {<<"", "">>, <<"k", "">>, <<"k", "1">>, <<"k", "2">>}

\* The inventory file is written where there was none.
CreateInventoryFile ==
    /\ ~inventory_file.exists
    /\ inventory_file' \in {FileWith(doc) : doc \in InventoryDocuments}
    /\ UNCHANGED <<now, unifiVars, sessionVars, inventory_cache, ret, serverVars>>

InitGroups ==
    /\ now = 0
    /\ session_cache = <<>>
    /\ task = [t \in Tasks |-> IdleTask]
    /\ ret = NoReturn
    /\ inventory_file \in {MissingFile} \cup {FileWith(doc) : doc \in InventoryDocuments}
    /\ inventory_cache = NoneValue
    /\ ServersAtRest
    /\ UnifiAtRest

NextGroups ==
    \/ list_all_hosts
    \/ list_groups
    \/ \E hostname \in QueriedHosts : get_host_details(hostname)
    \/ \E group_name \in GroupNames : get_group_hosts(group_name)
    \/ \E pattern \in Patterns, query \in VariableQueries :
            query_hosts(pattern, query[1], query[2])
    \/ reload_inventory
    \/ CreateInventoryFile

SpecGroups == InitGroups /\ [][NextGroups]_vars

\* ----------------------------------------------- claims: Pi-hole sessions

NoApiKey == "No API key configured"

\* The validity get_pihole_session computes with, for the answer the step saw.
EffectiveValidity == IF ret.validity = Absent THEN DEFAULT_VALIDITY ELSE ret.validity

\* C1 (as stated): every sid a call returns belongs to a session whose
\* expires_at is strictly later than the time of the return, whether the
\* session was read from the cache or was just obtained.
C1_TokenNeverHandedOutExpired ==
    ret.op = "sid" => ret.expires_at > now

\* C1 (amended): a sid read from the session cache belongs to a session whose
\* expires_at is strictly later than now; a sid just obtained belongs to the
\* session stored under the display name, whose expires_at is
\* now + validity - 30 s, later than now exactly when the validity the server
\* declared exceeds 30 s.
C1_CachedTokenUnexpired ==
    ret.op = "sid" =>
        /\ ret.display_name \in DOMAIN session_cache
        /\ session_cache[ret.display_name] =
               [sid |-> ret.sid, expires_at |-> ret.expires_at]
        /\ ret.from_cache => ret.expires_at > now
        /\ ~ret.from_cache =>
               /\ ret.expires_at = now + EffectiveValidity - SAFETY_MARGIN
               /\ (ret.expires_at > now) <=> (EffectiveValidity > SAFETY_MARGIN)

\* C1 witness: a sid is handed out from the cache at the last instant, from a
\* session obtained earlier.
C1_Witness ==
    /\ ret.op = "sid" /\ ret.from_cache
    /\ now = MaxTime /\ ret.expires_at > MaxTime

\* The validity get_pihole_session computes with for a declared validity v.
ValidityUsed(v) == IF v = Absent THEN DEFAULT_VALIDITY ELSE v

\* The step is a get_cached_session call made with an API key, up to its
\* return or its await.
CallWithKey == ret'.op # "none" /\ ~ret'.exchange /\ ret'.error # NoApiKey

\* Before the step, the cache holds a session for n with now < expires_at.
HadUnexpired(n) == n \in DOMAIN session_cache /\ now < session_cache[n].expires_at

\* A call that finds a session with now < expires_at (that is, made before
\* t0 + V - 30 s) returns its sid; it starts no exchange and leaves the cache
\* as it was.
ReusedBeforeExpiry ==
    (CallWithKey /\ HadUnexpired(ret'.display_name)) =>
        /\ ret'.op = "sid" /\ ret'.from_cache
        /\ ret'.sid = session_cache[ret'.display_name].sid
        /\ UNCHANGED <<session_cache, task>>

\* A call at or after t0 + V - 30 s (or with no session cached) starts an
\* authentication exchange.
RefreshedAfterExpiry ==
    (CallWithKey /\ ~HadUnexpired(ret'.display_name)) =>
        /\ ret'.op = "auth_started"
        /\ \E t \in Tasks :
               /\ task[t].pc = "idle" /\ task'[t].pc = "auth"
               /\ task'[t].display_name = ret'.display_name
        /\ UNCHANGED session_cache

\* After the step the cache holds, under the display name, the session the
\* exchange that just ended obtained.
CacheHoldsNewSession ==
    /\ ret'.display_name \in DOMAIN session_cache'
    /\ session_cache'[ret'.display_name] =
           [sid |-> ret'.sid,
            expires_at |-> now' + ValidityUsed(ret'.validity) - SAFETY_MARGIN]

\* C2 (as stated): sessions are reused before t0 + V - 30 s, and the first
\* call at or after t0 + V - 30 s performs a new exchange and replaces the
\* cached session.
C2_RefreshAlwaysReplaces ==
    [][ /\ ReusedBeforeExpiry
        /\ RefreshedAfterExpiry
        /\ (ret'.exchange /\ ret'.refresh) =>
               (ret'.op = "sid" /\ CacheHoldsNewSession)
      ]_vars

\* C2 (amended): every call made with an API key before t0 + V - 30 s returns
\* the cached sid without any exchange; the first such call at or after
\* t0 + V - 30 s performs a new exchange, and the exchange replaces the cached
\* session when it succeeds.
C2_RefreshReplacesOnSuccess ==
    [][ /\ ReusedBeforeExpiry
        /\ RefreshedAfterExpiry
        /\ (ret'.exchange /\ ret'.op = "sid") => CacheHoldsNewSession
      ]_vars

\* C2 witness: a session cached earlier has expired at 280 s and the exchange
\* of the call made then has replaced it (validity 300).
C2_Witness ==
    /\ ret.exchange /\ ret.refresh /\ ret.op = "sid"
    /\ now = MaxTime
    /\ session_cache[ret.display_name].expires_at =
           MaxTime + DEFAULT_VALIDITY - SAFETY_MARGIN

\* C3: an exchange that fails returns {error} and leaves the session cache
\* as it was, and an error other than the missing API key is only ever
\* returned by an exchange that has just ended: no failure is remembered.
C3_FailedAuthNotCached ==
    [][ /\ (ret'.op = "error" => session_cache' = session_cache)
        /\ (ret'.op = "error" /\ ret'.error # NoApiKey) =>
               \E t \in Tasks : task[t].pc = "auth" /\ task'[t].pc = "idle"
        /\ \A t \in Tasks :
               (task[t].pc = "auth" /\ task'[t].pc = "idle" /\ ret'.op = "error") =>
                   ret'.error # ""
      ]_vars

\* C3 witness: an exchange for a display name with no cached session has
\* failed on a connection error, and the cache holds no entry for it.
C3_Witness ==
    /\ ret.op = "error" /\ ret.exchange /\ ret.error = "Connection Failed"
    /\ ret.display_name \notin DOMAIN session_cache

\* ---------------------------------------- claims: caches of the sub-servers

CachedServers == {"ansible", "ollama", "ping", "ups"}

\* The cache of a sub-server before and after the step.
CacheBefore(server) ==
    CASE server = "ansible" -> inventory_cache
      [] server = "ollama" -> endpoints_cache
      [] server = "ping" -> ping_inventory_cache
      [] server = "ups" -> ups_inventory_cache
CacheAfter(server) ==
    CASE server = "ansible" -> inventory_cache'
      [] server = "ollama" -> endpoints_cache'
      [] server = "ping" -> ping_inventory_cache'
      [] server = "ups" -> ups_inventory_cache'

\* The step is a reload, or a get, of one of the four cached sub-servers.
ReloadStep == ret'.kind = "reload" /\ ret'.server \in CachedServers
GetStep == ret'.kind = "get" /\ ret'.server \in CachedServers

\* What one resolution of the sub-server, run on an empty cache, leaves in
\* the cache.
StoredByResolution(server) ==
    CASE server = "ansible" -> load_inventory(NoneValue, inventory_file).cache
      [] server = "ollama" ->
             load_ollama_endpoints(NoneValue, environ, inventory_file).cache
      [] server = "ping" -> ping_load_inventory(NoneValue, environ, inventory_file).cache
      [] server = "ups" -> ups_load_inventory(NoneValue, environ, inventory_file).cache

\* A get runs a resolution exactly when it finds the cache empty.
GetResolvesOnMiss ==
    GetStep => (ret'.resolved <=> CacheBefore(ret'.server) = NoneValue)

\* C4 (as stated): a reload leaves the cache empty and runs no resolution
\* itself; the resolution is run by the get that follows.
C4_ReloadLeavesCacheEmpty ==
    [][ /\ ReloadStep => (CacheAfter(ret'.server) = NoneValue /\ ~ret'.resolved)
        /\ GetResolvesOnMiss
      ]_vars

\* C4 (amended): a reload clears the cache and runs exactly one resolution
\* itself, which leaves in the cache what a resolution stores; the get that
\* follows resolves again only when that resolution stored nothing.
C4_ReloadResolvesItself ==
    [][ /\ ReloadStep =>
               /\ ret'.resolved
               /\ CacheAfter(ret'.server) = StoredByResolution(ret'.server)
        /\ GetResolvesOnMiss
      ]_vars

\* C4 witness: a reload of the ollama endpoints has run its resolution and
\* left the hosts of the inventory in the cache.
C4_Witness ==
    /\ ret.kind = "reload" /\ ret.server = "ollama" /\ ret.resolved
    /\ inventory_file = FileWith(Homelab)
    /\ endpoints_cache # NoneValue
    /\ DOMAIN endpoints_cache = {"gpu1"}

\* Only a get that finds the cache empty, or a reload, changes a cache.
OnlyGetAndReloadWrite ==
    \A server \in CachedServers :
        CacheAfter(server) # CacheBefore(server) =>
            /\ ret'.server = server
            /\ \/ ret'.kind = "reload"
               \/ ret'.kind = "get" /\ CacheBefore(server) = NoneValue

\* The resolution of the sub-server has something to store: ollama and ping
\* store whatever they find; ansible stores the document of a file that
\* exists; ups stores only a nut_servers group with a host.
ResolutionStores(server) ==
    \/ server \in {"ollama", "ping"}
    \/ /\ server = "ansible"
       /\ inventory_file.exists /\ inventory_file.doc # NoneValue
    \/ /\ server = "ups"
       /\ environ.ANSIBLE_INVENTORY_PATH # ""
       /\ inventory_file.exists /\ IsDict(inventory_file.doc)
       /\ manager_get_group_hosts(inventory_file, "nut_servers") # <<>>

\* C5 (as stated): after any get the cache is populated; a get on a populated
\* cache runs no resolution; the only changes of a cache are empty to
\* populated by a get and populated to empty by a reload.
C5_GetAlwaysPopulates ==
    [][ /\ GetStep => CacheAfter(ret'.server) # NoneValue
        /\ GetResolvesOnMiss
        /\ \A server \in CachedServers :
               CacheAfter(server) # CacheBefore(server) =>
                   /\ ret'.server = server
                   /\ \/ /\ ret'.kind = "get"
                         /\ CacheBefore(server) = NoneValue
                      \/ /\ ret'.kind = "reload"
                         /\ CacheAfter(server) = NoneValue
      ]_vars

\* C5 (amended): a get on an empty cache runs the resolution synchronously and
\* leaves the cache populated exactly when the resolution stores its result
\* (always for ollama and ping; for ansible when the file exists and is not
\* empty; for ups when the nut_servers group has a host); a get on a populated
\* cache runs no resolution and leaves the cache as it is; a cache changes
\* only by a get that finds it empty or by a reload.
C5_GetPopulatesWhenResolutionStores ==
    [][ /\ GetResolvesOnMiss
        /\ GetStep =>
               IF CacheBefore(ret'.server) = NoneValue
               THEN (CacheAfter(ret'.server) # NoneValue) <=> ResolutionStores(ret'.server)
               ELSE CacheAfter(ret'.server) = CacheBefore(ret'.server)
        /\ OnlyGetAndReloadWrite
      ]_vars

\* C5 witness: a get of the ups server has run its resolution with the
\* environment set and no nut_servers host, and the cache is still empty.
C5_Witness ==
    /\ ret.kind = "get" /\ ret.server = "ups" /\ ret.resolved
    /\ environ.variables # {}
    /\ ups_inventory_cache = NoneValue

\* ------------------------------------ claims: fallback to the environment

ServiceDomains == {"docker", "ollama", "pihole", "ups", "ping"}

\* The hosts the inventory gives the domain.
InventoryHosts(domain) ==
    CASE domain = "docker" ->
             DOMAIN manager_get_group_hosts(inventory_file, "docker_hosts")
             \cup DOMAIN manager_get_group_hosts(inventory_file, "podman_hosts")
      [] domain = "ollama" -> DOMAIN manager_get_group_hosts(inventory_file, "ollama_servers")
      [] domain = "pihole" -> DOMAIN manager_get_group_hosts(inventory_file, "PiHole")
      [] domain = "ups" -> DOMAIN manager_get_group_hosts(inventory_file, "nut_servers")
      [] domain = "ping" -> DOMAIN get_all_hosts_with_inheritance(inventory_file).hosts

\* The inventory path is unset, the file is missing or cannot be loaded, or
\* the groups of the domain have no host.
InventoryYieldsNothing(domain) ==
    \/ environ.ANSIBLE_INVENTORY_PATH = ""
    \/ ~inventory_file.exists
    \/ ~IsDict(inventory_file.doc)
    \/ InventoryHosts(domain) = {}

\* The records the environment scan of the domain produces.
EnvRecords(domain) ==
    CASE domain = "docker" -> load_container_hosts_from_env(environ)
      [] domain = "ollama" -> OllamaEndpointsFromEnv(environ)
      [] domain = "pihole" -> load_pihole_hosts_from_env(environ)
      [] domain = "ping" -> load_ping_targets_from_env(environ)
      [] OTHER -> <<>>

\* C8 (as stated): in every service domain, a resolution that gets nothing
\* from the inventory goes on to the environment scan and returns the
\* records the scan produces.
C8_EmptyInventoryFallsBackToEnv ==
    (ret.server \in ServiceDomains /\ ret.resolved /\ InventoryYieldsNothing(ret.server)) =>
        /\ ret.scanned
        /\ ret.server # "ups" => ret.returned = EnvRecords(ret.server)

\* --------------------------------------------------- claims: Unifi cache

\* The step is a get, or a force-refresh, of the Unifi data.
UnifiGetStep == ret'.server = "unifi" /\ ret'.kind = "get"
UnifiRefreshStep == ret'.server = "unifi" /\ ret'.kind = "refresh"

OneOf(prefix, middle, suffix, hosts) ==
    {{}} \cup {{EnvVar(prefix, middle, suffix, host, "")} : host \in hosts}

\* The environments of the fallback: for each runtime an indexed endpoint
\* with its optional name and a named endpoint, over two endpoint values.
ContainerVariables ==
    {d1 \cup dn \cup dc \cup p1 \cup pn \cup ph :
        d1 \in OneOf("DOCKER_", "1", "_ENDPOINT", {"10.0.0.5:2375", "10.0.0.6:2375"}),
        dn \in OneOf("DOCKER_", "1", "_NAME", {"box"}),
        dc \in OneOf("DOCKER_", "CYBER", "_ENDPOINT", {"10.0.0.5:2375", "10.0.0.6:2375"}),
        p1 \in OneOf("PODMAN_", "1", "_ENDPOINT", {"10.0.0.7:8080", "10.0.0.8:8080"}),
        pn \in OneOf("PODMAN_", "1", "_NAME", {"pod"}),
        ph \in OneOf("PODMAN_", "HL15", "_ENDPOINT", {"10.0.0.7:8080", "10.0.0.8:8080"})}

InitContainerEnv ==
    /\ now = 0
    /\ session_cache = <<>>
    /\ task = [t \in Tasks |-> IdleTask]
    /\ ret = NoReturn
    /\ InventoryAtRest
    /\ environ \in [ANSIBLE_INVENTORY_PATH : {""}, variables : ContainerVariables]
    /\ endpoints_cache = NoneValue
    /\ ping_inventory_cache = NoneValue
    /\ ups_inventory_cache = NoneValue
    /\ UnifiAtRest

NextContainerEnv == docker_load_hosts

SpecContainerEnv == InitContainerEnv /\ [][NextContainerEnv]_vars

\* ------------------------------------------------ the groups searched by name

\* `hosts: {h: }`
HostsOnly(h) == Dict(<<Item("hosts", Dict(<<Item(h, NoneValue)>>))>>)

\* Inventories in which a name occurs more than once, or as something other
\* than a group: g2 below g1 and beside it; `sub` below g1 and below g2;
\* `extra` written before `children`, each holding a group `sub`; a host h1
\* with variables and no group of that name; a `vars` entry `k` that is a
\* mapping.
NamedTwice ==
    {Dict(<<Item("all", Dict(<<Item("children", Dict(<<
         Item("g1", Dict(<<Item("children", Dict(<<Item("g2", HostsOnly("h1"))>>))>>)),
         Item("g2", HostsOnly("h2"))>>))>>))>>),
     Dict(<<Item("all", Dict(<<Item("children", Dict(<<
         Item("g1", Dict(<<Item("children", Dict(<<Item("sub", HostsOnly("h1"))>>))>>)),
         Item("g2", Dict(<<Item("children", Dict(<<Item("sub", HostsOnly("h2"))>>))>>))
         >>))>>))>>),
     Dict(<<Item("all", Dict(<<
         Item("extra", Dict(<<Item("children", Dict(<<Item("sub", HostsOnly("h2"))>>))>>)),
         Item("children", Dict(<<
             Item("g1", Dict(<<Item("children",
                                    Dict(<<Item("sub", HostsOnly("h1"))>>))>>))>>))>>))>>),
     Dict(<<Item("all", Dict(<<Item("children", Dict(<<
         Item("g1", Dict(<<Item("hosts", Dict(<<
             Item("h1", Dict(<<Item("k", Scalar(1))>>))>>))>>))>>))>>))>>),
     Dict(<<Item("all", Dict(<<
         Item("vars", Dict(<<Item("k", Dict(<<Item("port", Scalar(1))>>))>>)),
         Item("children", Dict(<<Item("g1", HostsOnly("h1"))>>))>>))>>)}

FindInventories == GroupInventories \cup NamedTwice

\* The names searched: groups, a host, a variable, a reserved key, and a name
\* that occurs nowhere.
FindTargets == {"g1", "g2", "sub", "extra", "h1", "k", "hosts", "nosuch"}

InitFind ==
    /\ now = 0
    /\ session_cache = <<>>
    /\ task = [t \in Tasks |-> IdleTask]
    /\ ret = NoReturn
    /\ inventory_file \in {FileWith(doc) : doc \in FindInventories}
    /\ inventory_cache = NoneValue
    /\ ServersAtRest
    /\ UnifiAtRest

NextFind ==
    \/ \E group_name \in FindTargets : get_group_hosts(group_name)
    \/ list_groups

SpecFind == InitFind /\ [][NextFind]_vars

\* --------------------------------------------- claims: inventory resolver

RECURSIVE DeclCount(_, _), DeclCountEach(_, _, _)

\* The number of tree positions, in the items not skipped, at which the
\* hostname is declared.
DeclCountEach(items, hostname, skipped) ==
    IF items = <<>> THEN 0
    ELSE (IF Head(items).k \in skipped THEN 0 ELSE DeclCount(Head(items).val, hostname))
         + DeclCountEach(Tail(items), hostname, skipped)

\* The node declares the hostname in its own `hosts` mapping.
DeclaresHere(node, hostname) ==
    /\ IsDict(node) /\ Has(node, "hosts")
    /\ IsDict(Get(node, "hosts")) /\ Has(Get(node, "hosts"), hostname)

\* The number of tree positions at or below the node at which the hostname
\* is declared.
DeclCount(node, hostname) ==
    IF ~IsDict(node) THEN 0
    ELSE (IF DeclaresHere(node, hostname) THEN 1 ELSE 0)
         + (IF Has(node, "children") /\ IsDict(Get(node, "children"))
            THEN DeclCountEach(Get(node, "children").items, hostname, {}) ELSE 0)
         + DeclCountEach(node.items, hostname, {"hosts", "children", "vars"})

\* The `all` node of the inventory the step worked on.
AllNode == GetOrEmpty(ret.inventory, "all")

\* list_all_hosts has just returned a host map.
ListedHosts == ret.op = "list_all_hosts" /\ ~ret.raised

\* The keys of the host map are the hostnames declared under `all`.
KeysAreDeclaredHosts ==
    \A hostname \in Hostnames :
        (hostname \in DOMAIN ret.hosts) <=> (DeclCount(AllNode, hostname) > 0)

RECURSIVE ScopeKeys(_, _), ScopeKeysEach(_, _, _)

\* The keys of the `vars` of the node, when it has a `vars` mapping.
VarKeys(node) ==
    IF IsDict(node) /\ Has(node, "vars") /\ IsDict(Get(node, "vars"))
    THEN Keys(Get(node, "vars")) ELSE {}

ScopeKeysEach(items, hostname, skipped) ==
    IF items = <<>> THEN {}
    ELSE (IF Head(items).k \in skipped THEN {} ELSE ScopeKeys(Head(items).val, hostname))
         \cup ScopeKeysEach(Tail(items), hostname, skipped)

\* The variable keys that the group nodes at or below the node give the
\* hostname: those of the `vars` of every node with a declaration of the
\* hostname at or below it.
ScopeKeys(node, hostname) ==
    IF DeclCount(node, hostname) = 0 THEN {}
    ELSE VarKeys(node)
         \cup (IF Has(node, "children") /\ IsDict(Get(node, "children"))
               THEN ScopeKeysEach(Get(node, "children").items, hostname, {}) ELSE {})
         \cup ScopeKeysEach(node.items, hostname, {"hosts", "children", "vars"})

\* C10 (as stated): the resolved variables of a host contain the `vars` of
\* every group node that is an ancestor of a declaration of the host.
C10_GroupVarsInherited ==
    (ret.op = "get_host_details" /\ ret.found) =>
        ScopeKeys(AllNode, ret.arg) \subseteq Keys(ret.hosts[ret.arg].vars)

\* ------------------------------------------------- claims: inventory groups

RECURSIVE GroupNodes(_, _), GroupNodesEach(_, _, _, _)

\* The groups among the items: each with its path, its bare name and its node,
\* and the groups below it.
GroupNodesEach(items, path, skipped, dicts_only) ==
    IF items = <<>> THEN {}
    ELSE (IF Head(items).k \in skipped \/ (dicts_only /\ ~IsDict(Head(items).val)) THEN {}
          ELSE {[path |-> JoinPath(path, Head(items).k), leaf |-> Head(items).k,
                 node |-> Head(items).val]}
               \cup GroupNodes(Head(items).val, JoinPath(path, Head(items).k)))
         \cup GroupNodesEach(Tail(items), path, skipped, dicts_only)

\* The groups below a node: the names under its `children` and its other keys
\* that hold mappings.
GroupNodes(node, path) ==
    IF ~IsDict(node) THEN {}
    ELSE (IF Has(node, "children") /\ IsDict(Get(node, "children"))
          THEN GroupNodesEach(Get(node, "children").items, path, {}, FALSE) ELSE {})
         \cup GroupNodesEach(node.items, path, {"hosts", "children", "vars"}, TRUE)

\* The group paths list_groups reports for the inventory the step worked on.
ReportedPaths ==
    LET groups == extract_groups(AllNode, "").groups
    IN  {groups[i] : i \in DOMAIN groups}

\* The groups of the inventory the step worked on that the argument of the
\* step names, by path or by bare name.
GroupsNamed ==
    {group \in GroupNodes(AllNode, "") :
        group.path \in ReportedPaths /\ ret.arg \in {group.path, group.leaf}}

\* The hostnames declared at or below a node.
HostsUnder(node) == {hostname \in Hostnames : DeclCount(node, hostname) > 0}

\* The hostnames a step answered with.
Members == {ret.members[i] : i \in DOMAIN ret.members}

\* C11 (as stated): the members get_group_hosts reports for a group are the
\* hosts declared under the group at any depth: in the group itself and in
\* all of its sub-groups.
C11_MembersAreHostsAtAnyDepth ==
    (ret.op = "get_group_hosts" /\ ret.found /\ IsDict(ret.inventory)) =>
        \A group \in GroupsNamed : Members = HostsUnder(group.node)

\* C12 (as stated): every group path list_groups reports, and the bare name
\* at its end, is found by get_group_hosts and resolves to that group, an
\* empty or a nested group included.
C12_ReportedGroupsResolve ==
    (ret.op = "get_group_hosts" /\ ret.inventory \in GroupInventories) =>
        \A group \in GroupsNamed : ret.found /\ ret.group_data = group.node

\* ---------------------------------------------- claims: inventory file states

AnsibleOps ==
    {"list_all_hosts", "list_groups", "get_host_details", "get_group_hosts",
     "query_hosts", "reload_inventory"}

\* The answer of an operation that found nothing: zero hosts, zero groups, or
\* the not-found result; the reload reports success.
AnsweredEmpty(r) ==
    /\ ~r.raised
    /\ r.op \in {"list_all_hosts", "query_hosts"} => r.found /\ r.hosts = <<>>
    /\ r.op = "list_groups" => r.found /\ r.groups = <<>>
    /\ r.op = "get_host_details" => ~r.found
    /\ r.op = "get_group_hosts" => ~r.found /\ r.error # ""
    /\ r.op = "reload_inventory" => r.found

\* A step of one of the six operations: the file stays as it is.
OperationStep == inventory_file' = inventory_file /\ ret'.op \in AnsibleOps

\* The operation before this one answered from a missing file, and the file
\* is there now.
FileAppeared ==
    /\ ret.op \in AnsibleOps /\ ret.resolved /\ ret.inventory = Dict(<<>>)
    /\ inventory_file.exists

C14_NoExceptionLeavesATool ==
    ret.op \in AnsibleOps => ~ret.raised

\* ------------------------------------------------ claims: names not found

\* The tools that take the name of a host or of a group.
NamedOps ==
    {"ping_host_by_name", "ping_group", "get_host_details", "get_group_hosts",
     "list_models", "get_details"} \cup DockerTools

\* C15 (as stated): a name the resolved table does not hold is answered with
\* a not-found result that carries the name and says how the valid names are
\* listed (the discovery tool, or the names themselves); the tool does not
\* raise, and answers with no other class of error.
C15_AbsentNameIsNotFoundWithHint ==
    (ret.op \in NamedOps /\ ~ret.raised /\ ~ret.known) =>
        /\ ret.answer.class = "not found"
        /\ "item" \in ret.answer.parts
        /\ ret.answer.parts \cap {"available", "discovery"} # {}

\* ------------------------------------------------------- claims: group ping

\* ping_group has answered for a group of the inventory.
GroupPinged == ret.op = "ping_group" /\ ret.known

\* C16: ping_group answers with one entry for each member of the group,
\* however the ping of each member ended; the summary counts the members
\* whose ping was reachable; the call does not raise.
C16_OneEntryPerMember ==
    GroupPinged =>
        /\ ~ret.raised
        /\ Len(ret.results) = Cardinality(ret.hostnames)
        /\ \A hostname \in ret.hostnames :
               Cardinality({i \in DOMAIN ret.results :
                               ret.results[i].host = hostname}) = 1
        /\ \A i \in DOMAIN ret.results :
               ret.results[i].reachable <=> ret.pings[ret.results[i].host] = "reachable"
        /\ ret.reachable =
               Cardinality({hostname \in ret.hostnames : ret.pings[hostname] = "reachable"})

\* C16 witness: a group of two hosts, of which one is reachable and one
\* times out, is answered with two entries, one of them reachable.
C16_Witness ==
    /\ GroupPinged /\ ret.hostnames = {"w1", "w2"}
    /\ ret.pings["w1"] = "reachable" /\ ret.pings["w2"] = "timeout"
    /\ Len(ret.results) = 2 /\ ret.reachable = 1

\* ---------------------------------------------------- claims: remote requests

\* C17 (as stated): every remote request that was made completes, with a
\* response or with None, also when the peer accepts the connection and then
\* never answers.
C17_EveryRequestCompletes ==
    \A t \in Tasks : (task[t].pc # "idle") ~> (task[t].pc = "idle")

\* ------------------------------------------------------ claims: secrets

\* C18 (as stated): the texts logged and returned are the same in any two
\* runs that differ only in the value of a secret, wherever the secret
\* occurs.
C18_TextsDoNotDependOnSecrets ==
    ret.server = "log" =>
        \A a, b \in Secrets :
            ret.logged[a] = ret.logged[b] /\ ret.returned[a] = ret.returned[b]

\* ------------------------------------------- claims: hostname normalization

RECURSIVE UpToFirstDot(_)

\* The characters before the first `.`, each in lower case and with a hyphen
\* for an underscore.
UpToFirstDot(hostname) ==
    IF hostname = <<>> \/ Head(hostname) = "." THEN <<>>
    ELSE <<IF Head(hostname) = "_" THEN "-" ELSE LowerChar(Head(hostname))>>
         \o UpToFirstDot(Tail(hostname))

\* A hostname has just been normalized.
Normalized == ret.op = "_normalize_hostname"

\* C19: the normalized hostname is the input in lower case, with a hyphen for
\* every underscore and without everything from the first `.` on; it is what
\* the tests expect for their cases; normalizing it again changes nothing.
C19_NormalizeLowersHyphenatesStrips ==
    Normalized =>
        /\ ret.result = UpToFirstDot(ret.hostname)
        /\ \A case \in TestCases :
               ret.hostname = case.hostname => ret.result = case.expected
        /\ ret.again = ret.result

\* C19 witness: Docker_Host_1.local.domain has been normalized to
\* docker-host-1.
C19_Witness ==
    /\ Normalized
    /\ ret.hostname = <<"D", "o", "c", "k", "e", "r", "_", "H", "o", "s", "t", "_", "1", ".", "l", "o", "c", "a", "l", ".", "d", "o", "m", "a", "i", "n">>
    /\ ret.result = <<"d", "o", "c", "k", "e", "r", "-", "h", "o", "s", "t", "-", "1">>

\* ------------------------------------------------ claims: the unified server
Catalogued == UNION {tools_by_category[c] : c \in DOMAIN tools_by_category \ {"homelab"}}

\* C20: calling any tool that the unified server registers and lists in its
\* catalog reaches an operation its sub-server module defines, and so returns
\* that sub-server's result; no such call fails for want of its target.
C20_CatalogToolsReachTheirSubServer ==
    /\ Catalogued = ToolsOf(Wrappers)
    /\ (ret.server = "unified" /\ ret.op = "call" /\ ret.tool \in Catalogued)
          => (ret.defined /\ ret.outcome = "result")

\* ------------------------------------------ claims: duplicate declarations

RECURSIVE Declarations(_, _), DeclarationsEach(_, _, _)

DeclarationsEach(items, path, skipped) ==
    IF items = <<>> THEN <<>>
    ELSE (IF Head(items).k \in skipped THEN <<>>
          ELSE Declarations(Head(items).val, JoinPath(path, Head(items).k)))
         \o DeclarationsEach(Tail(items), path, skipped)

\* Every declaration of a hostname at or below the node, in the order of the
\* traversal: the node's own `hosts`, its `children` in key order, its other
\* nested keys in key order. A declaration is the hostname, the variables
\* written there and the path of the node.
Declarations(node, path) ==
    IF ~IsDict(node) THEN <<>>
    ELSE (IF Has(node, "hosts") /\ IsDict(Get(node, "hosts"))
          THEN [i \in DOMAIN Get(node, "hosts").items |->
                   [host |-> Get(node, "hosts").items[i].k,
                    vars |-> Get(node, "hosts").items[i].val, path |-> path]]
          ELSE <<>>)
         \o (IF Has(node, "children") /\ IsDict(Get(node, "children"))
             THEN DeclarationsEach(Get(node, "children").items, path, {}) ELSE <<>>)
         \o DeclarationsEach(node.items, path, {"hosts", "children", "vars"})

\* The declarations of one hostname, in traversal order.
DeclarationsOf(hostname) ==
    LET Names(d) == d.host = hostname
    IN  SelectSeq(Declarations(AllNode, ""), Names)

\* The group paths of a sequence of declarations; the root has none.
RECURSIVE PathsOf(_)
PathsOf(declarations) ==
    IF declarations = <<>> THEN <<>>
    ELSE (IF Head(declarations).path # "" THEN <<Head(declarations).path>> ELSE <<>>)
         \o PathsOf(Tail(declarations))

\* C21: a host declared at several tree positions is listed with the
\* variables of the declaration the traversal reaches first, and with the
\* group path of every declaration in traversal order; no later declaration
\* adds, removes or overwrites a variable.
C21_FirstDeclarationKeepsItsVariables ==
    ListedHosts =>
        \A hostname \in DOMAIN ret.hosts :
            LET declared == DeclarationsOf(hostname)
            IN  /\ declared # <<>>
                /\ ret.hosts[hostname].vars =
                       (IF Truthy(declared[1].vars) THEN declared[1].vars ELSE Dict(<<>>))
                /\ ret.hosts[hostname].groups = PathsOf(declared)

\* C21 witness: h2 is declared first without variables and later, in two
\* more places, once with k = 1; it is listed with no variable and with the
\* paths of the two later declarations.
C21_Witness ==
    /\ ListedHosts
    /\ Len(DeclarationsOf("h2")) = 3
    /\ ~Truthy(DeclarationsOf("h2")[1].vars) /\ Truthy(DeclarationsOf("h2")[2].vars)
    /\ Keys(ret.hosts["h2"].vars) = {}
    /\ ret.hosts["h2"].groups = <<"g1/sub", "extra">>

\* ------------------------------------------------ claims: reordered keys

\* The inventory was listed before and after a reordering of one level.
ListedReordered == ret.op = "list_reordered" /\ ~ret.raised

\* How often a path occurs in a groups list.
Occurrences(groups, path) == Cardinality({i \in DOMAIN groups : groups[i] = path})

\* The variables with which the `all` node of the listed inventory declares
\* the hostname, one per declaration (`host_vars or {}`).
DeclaredVariables(hostname) ==
    LET declared == SelectSeq(Declarations(GetOrEmpty(ret.inventory, "all"), ""),
                              LAMBDA d : d.host = hostname)
    IN  {IF Truthy(declared[i].vars) THEN declared[i].vars ELSE Dict(<<>>) :
            i \in DOMAIN declared}

\* C22 (as stated): reordering the keys of one nesting level leaves the
\* resolved variables of every host unchanged.
C22_ReorderingKeepsVariables ==
    ListedReordered =>
        /\ DOMAIN ret.reordered_hosts = DOMAIN ret.hosts
        /\ \A hostname \in DOMAIN ret.hosts :
               ret.reordered_hosts[hostname].vars = ret.hosts[hostname].vars

\* C22 (amended): reordering the keys of one nesting level leaves the set of
\* hosts and the group paths of every host (as a collection) unchanged, and
\* leaves the resolved variables of every host unchanged whose declarations
\* all carry the same variables; a host declared with different variables
\* takes those of the declaration the traversal of the reordered document
\* reaches first.
C22_ReorderingKeepsAgreedVariables ==
    ListedReordered =>
        /\ DOMAIN ret.reordered_hosts = DOMAIN ret.hosts
        /\ \A hostname \in DOMAIN ret.hosts :
               /\ \A path \in {"g1", "g2", "g1/sub", "extra"} :
                      Occurrences(ret.reordered_hosts[hostname].groups, path)
                          = Occurrences(ret.hosts[hostname].groups, path)
               /\ Len(ret.reordered_hosts[hostname].groups)
                      = Len(ret.hosts[hostname].groups)
               /\ Cardinality(DeclaredVariables(hostname)) = 1
                      => ret.reordered_hosts[hostname].vars = ret.hosts[hostname].vars
               /\ ret.reordered_hosts[hostname].vars \in DeclaredVariables(hostname)

\* C22 witness: the sibling groups g1 and g2 were swapped; h1, declared under
\* both without variables, keeps its variables and its two group paths, now
\* in the other order.
C22_Witness ==
    /\ ListedReordered /\ ret.level = <<"all", "children">>
    /\ "h1" \in DOMAIN ret.hosts
    /\ ret.hosts["h1"].groups = <<"g1", "g2">>
    /\ ret.reordered_hosts["h1"].groups = <<"g2", "g1">>
    /\ ret.reordered_hosts["h1"].vars = ret.hosts["h1"].vars

\* ---------------------------------------------- claims: groups found by name

RECURSIVE GroupsInOrder(_), GroupsInOrderEach(_, _, _)

GroupsInOrderEach(items, skipped, dicts_only) ==
    IF items = <<>> THEN <<>>
    ELSE (IF Head(items).k \in skipped \/ (dicts_only /\ ~IsDict(Head(items).val))
          THEN <<>>
          ELSE <<[leaf |-> Head(items).k, node |-> Head(items).val]>>
               \o GroupsInOrder(Head(items).val))
         \o GroupsInOrderEach(Tail(items), skipped, dicts_only)

\* The groups below a node in the order in which the resolver visits them:
\* the names under `children` first, then the other keys that hold mappings,
\* each followed by the groups below it.
GroupsInOrder(node) ==
    IF ~IsDict(node) THEN <<>>
    ELSE (IF Has(node, "children") /\ IsDict(Get(node, "children"))
          THEN GroupsInOrderEach(Get(node, "children").items, {}, FALSE) ELSE <<>>)
         \o GroupsInOrderEach(node.items, {"hosts", "children", "vars"}, TRUE)

\* The groups of the inventory searched that carry the name searched for, in
\* the resolver's order.
GroupsCalled ==
    SelectSeq(GroupsInOrder(AllNode), LAMBDA group : group.leaf = ret.arg)

\* C23 (as stated): _find_group returns the node of the first group of the
\* resolver's depth-first order that carries the target name, never a value
\* that is no group, and nothing exactly when no group carries the name.
C23_FindsFirstGroupInResolverOrder ==
    (ret.op = "get_group_hosts" /\ IsDict(ret.inventory)) =>
        IF GroupsCalled = <<>>
        THEN ret.group_data = NoneValue /\ ret.error # ""
        ELSE ret.group_data = GroupsCalled[1].node /\ ret.error = ""

\* ------------------------------- claims: container hosts from the environment

\* The container hosts were just loaded from the environment variables.
LoadedFromEnv == ret.server = "docker" /\ ret.scanned

\* The indexed endpoints and the named endpoints of one prefix.
IndexedVariables(prefix) ==
    {var \in environ.variables :
        var.prefix = prefix /\ var.suffix = "_ENDPOINT" /\ IsDigit(var.middle)}
NamedVariables(prefix) ==
    {var \in environ.variables :
        var.prefix = prefix /\ var.suffix = "_ENDPOINT" /\ ~IsDigit(var.middle)}

\* The display names under which the table holds an endpoint value.
NamesOf(endpoint) ==
    {display_name \in DOMAIN ret.returned : ret.returned[display_name].endpoint = endpoint}

\* C24 (as stated): for the DOCKER_ and the PODMAN_ prefix, an endpoint value
\* carried by an indexed entry and by a named variable is in the table once,
\* under the lowercased name of the named variable.
C24_NamedFormSuppressesIndexedEntry ==
    LoadedFromEnv =>
        \A prefix \in {"DOCKER_", "PODMAN_"} :
            \A indexed \in IndexedVariables(prefix), named \in NamedVariables(prefix) :
                ValueOf(indexed) = ValueOf(named)
                    => NamesOf(ValueOf(named)) = {Lower(named.middle)}

\* --------------------------------------- claims: concurrent session calls

\* A call that ends, at once or after its exchange, ends with a sid or with
\* an error text.
EndsWithTokenOrError ==
    /\ ret'.op \in {"none", "auth_started", "sid", "error"}
    /\ ret'.op = "sid" => ret'.sid \in Sids /\ ret'.error = ""
    /\ ret'.op = "error" => ret'.error # "" /\ ret'.sid = ""
    /\ \A t \in Tasks :
           (task[t].pc = "auth" /\ task'[t].pc = "idle") => ret'.op \in {"sid", "error"}

\* The cache changes only when an exchange succeeds, and then in the entry of
\* that exchange's display name alone, which becomes the session returned.
CacheWrittenBySuccessOnly ==
    session_cache' # session_cache =>
        /\ ret'.exchange /\ ret'.op = "sid"
        /\ DOMAIN session_cache' = DOMAIN session_cache \cup {ret'.display_name}
        /\ \A k \in DOMAIN session_cache' :
               session_cache'[k] =
                   IF k = ret'.display_name
                   THEN [sid |-> ret'.sid, expires_at |-> ret'.expires_at]
                   ELSE session_cache[k]

\* C25: whatever the interleaving of the calls, a call that finds an
\* unexpired session returns it and starts no exchange; a call that finds
\* none starts an exchange of its own, also while another call awaits one
\* for the same display name; every call ends with a sid or an error; and
\* the cache is only ever written with the session of an exchange that
\* succeeded, each such exchange storing its own.
C25_InterleavedCallsKeepTheCacheSound ==
    [][ /\ ReusedBeforeExpiry
        /\ RefreshedAfterExpiry
        /\ EndsWithTokenOrError
        /\ CacheWrittenBySuccessOnly
        /\ (ret'.exchange /\ ret'.op = "sid") => CacheHoldsNewSession
      ]_vars

\* C25 witness: two calls for dell both found no session and both
\* authenticated; the second exchange has just ended and has replaced the
\* session that the first had stored meanwhile by its own, sidB.
C25_Witness ==
    /\ \A t \in Tasks : task[t].pc = "idle"
    /\ ret.exchange /\ ret.op = "sid" /\ ret.display_name = "dell"
    /\ ~ret.refresh /\ ret.had_entry
    /\ ret.sid = "sidB" /\ session_cache["dell"].sid = "sidB"

\* ------------------------------------------------- a process started again

\* One process of the servers ends and the next one starts: the module-level
\* globals are set again (_inventory_cache = None, _endpoints_cache = None,
\* session_cache = {}), and CACHE_DIR.mkdir(exist_ok=True) leaves the files of
\* the cache directory as they are.  The new process reads UNIFI_API_KEY from
\* its own environment and finds the exporter script or not.
Restart ==
    /\ inventory_cache' = NoneValue
    /\ endpoints_cache' = NoneValue
    /\ ping_inventory_cache' = NoneValue
    /\ ups_inventory_cache' = NoneValue
    /\ session_cache' = <<>>
    /\ task' = [t \in Tasks |-> IdleTask]
    /\ ret' = [NoReturn EXCEPT !.op = "restart"]
    /\ unifi_setup' \in [exporter : BOOLEAN, api_key : BOOLEAN]
    /\ UNCHANGED <<now, inventory_file, environ, cache_file>>

InitRestart ==
    /\ now = 0
    /\ session_cache = <<>>
    /\ task = [t \in Tasks |-> IdleTask]
    /\ ret = NoReturn
    /\ inventory_file = FileWith(Homelab)
    /\ inventory_cache = NoneValue
    /\ environ = [ANSIBLE_INVENTORY_PATH |-> "ansible_hosts.yml", variables |-> {}]
    /\ endpoints_cache = NoneValue
    /\ ping_inventory_cache = NoneValue
    /\ ups_inventory_cache = NoneValue
    /\ cache_file = NoCacheFile
    /\ unifi_setup \in [exporter : BOOLEAN, api_key : BOOLEAN]

NextRestart ==
    \/ \E run \in ExporterRuns : get_network_data("get_network_devices", run)
    \/ \E run \in ExporterRuns : refresh_network_data(run)
    \/ list_all_hosts
    \/ ollama_list_hosts
    \/ reload_inventory
    \/ Elapse
    \/ Restart

SpecRestart == InitRestart /\ [][NextRestart]_vars

\* Every cache kept in process memory is empty.
MemoryCachesEmpty ==
    /\ inventory_cache = NoneValue
    /\ endpoints_cache = NoneValue
    /\ ping_inventory_cache = NoneValue
    /\ ups_inventory_cache = NoneValue
    /\ session_cache = <<>>

\* A Unifi tool has just run a remote fetch that succeeded.
FetchedUnifiData == ret.server = "unifi" /\ ret.fetches = 1 /\ ret.error = ""

ApiResponses ==
    [status : {200, 401, 500}, fault : {"none"}]
    \cup [status : {0}, fault : {"timeout", "connector", "other"}]

\* The JSON of /api/stats/summary.
StatsSummary == Dict(<<Item("queries", Scalar(1))>>)

\* pihole_api_request(host, port, endpoint, sid): the JSON on HTTP 200, None
\* on any other status and on every exception.
pihole_api_request(response) ==
    IF response.fault # "none" THEN NoneValue
    ELSE IF response.status = 200 THEN StatsSummary
    ELSE NoneValue

\* Mutant: a session the server rejects with HTTP 401 is dropped from the
\* cache.
CacheAfterRequest_EvictRejected(cache, display_name, response) ==
    IF response.fault = "none" /\ response.status = 401
    THEN [k \in DOMAIN cache \ {display_name} |-> cache[k]]
    ELSE cache

\* The session cache once pihole_api_request has returned: the function has
\* no session_cache parameter and get_stats only formats what it returns.
CacheAfterRequest(cache, display_name, response) == cache

\* Why the request returned None ("" when it returned data).
RequestFailure(response) ==
    IF response.fault = "timeout" THEN "Timeout"
    ELSE IF response.fault = "connector" THEN "Connection Failed"
    ELSE IF response.fault = "other" THEN "Unexpected Error"
    ELSE IF response.status = 200 THEN ""
    ELSE IF response.status = 401 THEN "HTTP 401"
    ELSE "HTTP error"

\* get_stats, from the sid get_cached_session has just returned to the text
\* for that host: the request is sent with that sid and its result formatted
\* ("Could not retrieve stats" for None).
GetStatsRequest(response) ==
    /\ ret.op = "sid"
    /\ LET data == pihole_api_request(response)
       IN  /\ session_cache' =
                  CacheAfterRequest(session_cache, ret.display_name, response)
           /\ ret' = [NoReturn EXCEPT
                          !.op = IF Truthy(data) THEN "stats" ELSE "no_stats",
                          !.display_name = ret.display_name,
                          !.sid = ret.sid,
                          !.had_entry = ret.display_name \in DOMAIN session_cache,
                          !.error = RequestFailure(response)]
    /\ UNCHANGED <<now, task, unifiVars, inventoryVars, serverVars>>

NextStats ==
    \/ \E n \in DisplayNames, k \in ApiKeys : GetCachedSessionCall(1, n, k)
    \/ \E r \in AuthResponses : GetCachedSessionResume(1, r)
    \/ \E response \in ApiResponses : GetStatsRequest(response)
    \/ Tick

SpecStats == InitSession /\ [][NextStats]_vars

\* The entry of display name k has been created or replaced by the step.
EntryWritten(k) ==
    /\ k \in DOMAIN session_cache'
    /\ k \in DOMAIN session_cache => session_cache'[k] # session_cache[k]

\* C27: the session cache entry of a display name is created or replaced only
\* by a step that ends a successful authentication exchange for that name and
\* then holds the session of that exchange; a failed exchange, an
\* authenticated request (rejected with 401, timed out or answered) and every
\* step for another display name leave it as it was, and no step removes an
\* entry.
C27_EntryChangesOnlyOnSuccessfulAuth ==
    [][ \A k \in DisplayNames :
            /\ k \in DOMAIN session_cache => k \in DOMAIN session_cache'
            /\ EntryWritten(k) =>
                   /\ ret'.exchange /\ ret'.op = "sid" /\ ret'.display_name = k
                   /\ session_cache'[k] =
                          [sid |-> ret'.sid, expires_at |-> ret'.expires_at]
      ]_vars

\* C27 witness: the request sent with the cached sid of dell has been
\* rejected with HTTP 401, and the cache still holds that session, unexpired,
\* next to the session of zero.
C27_Witness ==
    /\ ret.op = "no_stats" /\ ret.error = "HTTP 401" /\ ret.display_name = "dell"
    /\ "dell" \in DOMAIN session_cache /\ "zero" \in DOMAIN session_cache
    /\ session_cache["dell"].sid = ret.sid
    /\ session_cache["dell"].expires_at > now

\* C28: a call of get_cached_session with an empty API key returns the error
\* `No API key configured`, whatever the session cache holds for the display
\* name: it returns no sid, starts no authentication exchange and leaves the
\* cache as it was.
C28_EmptyKeyAnswersBeforeTheCache ==
    [][ \A t \in Tasks, display_name \in DisplayNames :
            GetCachedSessionCall(t, display_name, "") =>
                /\ ret'.op = "error" /\ ret'.error = NoApiKey
                /\ ret'.sid = "" /\ ~ret'.from_cache /\ ~ret'.exchange
                /\ session_cache' = session_cache
                /\ task' = task
      ]_vars

\* C28 witness: the call without a key has been refused while the cache held
\* an unexpired session for its display name.
C28_Witness ==
    /\ ret.op = "error" /\ ret.error = NoApiKey /\ ret.display_name = "zero"
    /\ ret.had_entry
    /\ session_cache["zero"].expires_at > now
    /\ task[1].pc = "idle"

\* ------------------------------------------------- the handler's hosts table

\* The endpoints the tables name.
TableEndpoints == {"10.0.0.5:2375", "10.0.0.9:2375"}

\* The environments the module is imported in: cyber absent, a docker host
\* at one of two endpoints, or a podman host.
TableEnvironments ==
    {[ANSIBLE_INVENTORY_PATH |-> "", variables |-> cyber] :
        cyber \in {{}, {EnvVar("DOCKER_", "CYBER", "_ENDPOINT", "10.0.0.5", "2375")},
                   {EnvVar("DOCKER_", "CYBER", "_ENDPOINT", "10.0.0.9", "2375")},
                   {EnvVar("PODMAN_", "CYBER", "_ENDPOINT", "10.0.0.5", "2375")}}}

\* The tables a handler is given: the ones those environments yield.
HostsTables ==
    {load_container_hosts_from_ansible(env, MissingFile).returned : env \in TableEnvironments}

\* CONTAINER_HOSTS = load_container_hosts_from_ansible(), set when the module
\* is imported.
CONTAINER_HOSTS == load_container_hosts_from_ansible(environ, inventory_file).returned

\* What each endpoint answers to a request.
EndpointResponses == [TableEndpoints -> RemoteOutcomes]

NoRequest == [endpoint |-> "", libpod |-> FALSE]

\* The request container_api_request(host, "/containers/json") sends: to
\* config["endpoint"], under /v4.0.0/libpod when config["runtime"] is podman,
\* with config the entry of host in the table; none for a host the table
\* does not hold.
RequestSent(table, host) ==
    IF host \notin DOMAIN table THEN NoRequest
    ELSE [endpoint |-> table[host].endpoint, libpod |-> table[host].runtime = "podman"]

\* The tools of handle_call_tool_impl(name, arguments, container_hosts) that
\* take a hostname, run while the module-level table is module_hosts:
\* container_api_request looks the host up in the module-level table.
ContainerTool(name, hostname, container_hosts, module_hosts, responses) ==
    LET known == hostname \in DOMAIN container_hosts
        request == RequestSent(module_hosts, hostname)
        containers ==
            container_api_request(module_hosts, hostname,
                IF request = NoRequest THEN "none" ELSE responses[request.endpoint])
        connected == IF containers = "none" THEN Answer("connection", {"item"})
                     ELSE Answer("ok", {"item"})
        rejected ==
            \/ name = "get_docker_containers" /\ ~known
            \/ name = "get_container_labels" /\ (hostname = "" \/ ~known)
    IN  [request |-> IF rejected THEN NoRequest ELSE request,
         runtime |-> IF known THEN container_hosts[hostname].runtime ELSE "",
         answer |->
            CASE name = "get_docker_containers" ->
                    IF ~known THEN Answer("not found", {"item", "available"})
                    ELSE connected
              [] name = "get_container_labels" ->
                    IF hostname = "" THEN Answer("required", {})
                    ELSE IF ~known THEN Answer("not found", {"item"})
                    ELSE connected]

\* The return of such a tool: the handler that ran, the table it was given
\* and what each endpoint would have answered.
TableReturn(handler, name, hostname, container_hosts, responses) ==
    [server |-> "docker", kind |-> "table", op |-> name, arg |-> hostname,
     resolved |-> FALSE, scanned |-> FALSE, handler |-> handler,
     container_hosts |-> container_hosts, responses |-> responses,
     outcome |-> ContainerTool(name, hostname, container_hosts, CONTAINER_HOSTS, responses)]

\* handle_call_tool(name, arguments): the module-level handler passes
\* CONTAINER_HOSTS.
handle_call_tool(name, hostname, responses) ==
    /\ ret' = TableReturn("module", name, hostname, CONTAINER_HOSTS, responses)
    /\ UNCHANGED <<now, unifiVars, sessionVars, inventoryVars, serverVars>>

\* DockerMCPServer.handle_tool(tool_name, arguments): the instance passes
\* self.container_hosts, the table its constructor loaded.
handle_tool(name, hostname, container_hosts, responses) ==
    /\ ret' = TableReturn("class", name, hostname, container_hosts, responses)
    /\ UNCHANGED <<now, unifiVars, sessionVars, inventoryVars, serverVars>>

TableTools == {"get_docker_containers", "get_container_labels"}
TableHostnames == {"cyber", "", "nosuch"}

InitTables ==
    /\ now = 0
    /\ session_cache = <<>>
    /\ task = [t \in Tasks |-> IdleTask]
    /\ ret = NoReturn
    /\ InventoryAtRest
    /\ environ \in TableEnvironments
    /\ endpoints_cache = NoneValue
    /\ ping_inventory_cache = NoneValue
    /\ ups_inventory_cache = NoneValue
    /\ UnifiAtRest

NextTables ==
    \/ \E name \in TableTools, hostname \in TableHostnames, responses \in EndpointResponses :
            handle_call_tool(name, hostname, responses)
    \/ \E name \in TableTools, hostname \in TableHostnames, container_hosts \in HostsTables,
          responses \in EndpointResponses :
            handle_tool(name, hostname, container_hosts, responses)

SpecTables == InitTables /\ [][NextTables]_vars

\* A handler has answered for a hostname of the table it was given.
AnsweredFromTable ==
    /\ ret.server = "docker" /\ ret.kind = "table"
    /\ ret.arg \in DOMAIN ret.container_hosts

\* C29: a handler given the table T sends the request for a hostname of T to
\* the endpoint and with the runtime of T[h], and answers what the
\* module-level handler answers when CONTAINER_HOSTS is T, whatever the
\* module-level table is.
C29_RequestFollowsTheHandlersTable ==
    AnsweredFromTable =>
        /\ ret.outcome.request = RequestSent(ret.container_hosts, ret.arg)
        /\ ret.outcome = ContainerTool(ret.op, ret.arg, ret.container_hosts,
                                       ret.container_hosts, ret.responses)

\* A Unifi tool has just run a remote fetch that failed.
FetchFailed == ret.server = "unifi" /\ ret.fetches = 1 /\ ret.error # ""

====
